---- MODULE Spec2Model ----
(***************************************************************************)
(* Model of the DOB permits pipeline of hursh-desai/ourtime.                *)
(*                                                                         *)
(* Ingestion engine: supabase/functions/dob-permits-sync/index.ts          *)
(* Store functions:  supabase/migrations/0001_init_schema.sql              *)
(* Tiles handler:    supabase/functions/tiles/index.ts                     *)
(*                                                                         *)
(* Seven specifications share the variables: Spec runs the sync handler    *)
(* against the upstream, SpecLive runs it to completion under weak         *)
(* fairness, SpecOverlap runs two invocations of it at once, SpecUpsert    *)
(* applies pages to the four tables with upsert_dob_permits, SpecTiles     *)
(* serves tile requests one at a time, SpecPair serves two concurrent      *)
(* requests for one tile, and SpecCache lets cache entries age and be      *)
(* swept while pages are applied.                                          *)
(*                                                                         *)
(* Timestamps are natural numbers: Epoch (0) is '1970-01-01T00:00:00Z',    *)
(* larger numbers are later instants.  The upstream (Socrata) dataset is a *)
(* function from record id to the record's :updated_at (Absent when the    *)
(* upstream holds no such record); the permit store (dob_permits) is a     *)
(* function from id to the updated_at of the stored row.  The upstream     *)
(* changes only between the runs of the first handler; except in           *)
(* SpecOverlap, one run executes at a time.                                *)
(***************************************************************************)
EXTENDS Integers, Sequences, FiniteSets, Bags, TLC

\* ---------------------------------------------------------------- bounds
NumIds == 3
MaxTime == 2
MaxRuns == 3

\* page size of the model (the deployed value is 5000)
PAGE_SIZE == 2

\* ------------------------------------------------------- program constants
InitialRetries == 3
InitialRetryDelay == 1000

Epoch == 0
\* no upstream record and no stored row carries the epoch itself
Absent == Epoch
\* null
None == -1

Ids == 1..NumIds
Modes == {"historical", "incremental"}
SinceVals == {None, 1}
UntilVals == {None, 1}

VARIABLES
  upstream,      \* Socrata dataset: id -> :updated_at (Absent = no record)
  clock,         \* current instant (new Date(), and the upstream's clock)
  store,         \* dob_permits: id -> updated_at of the stored row
  syncState,     \* dataset_sync_state.last_synced_updated_at (None = no row)
  pc,            \* position of the Deno.serve handler
  mode, since, until,   \* request parameters of the run
  watermark,     \* let watermark
  page, newestSeen, maxUpdatedAt, totalProcessed,
  retries, retryDelay,
  records,       \* the page returned by the last successful fetch
  resp,          \* the response of the run
  attempts,      \* history: fetch attempts made for the current page
  delays,        \* history: backoff delays slept for the current page
  lastFetch,     \* history: outcome of the last fetch attempt for the page
  stateWrites,   \* history: writes of dataset_sync_state by the current run
  startLB,       \* history: lower bound of the run's first page request
  wmBefore,      \* history: current_dob_watermark() when the run started
  prev,          \* history: summary of the previous run
  allIncr,       \* history: every run so far was incremental, no since/until
  allOk,         \* history: every run that ended so far answered success
  runs,          \* history: number of runs started
  applied,       \* history: the updated_at values of the records applied
  probe,         \* history: how the preflight request of the run ended
  trail,         \* history: the pages fetched and the upsert calls of the run
  second,        \* the locals of a second, overlapping invocation of the
                 \* sync handler
  dob_buildings,       \* bin -> street_name
  dob_permit_details,  \* permit_number -> filing_date
  dob_entities,        \* bag of rows (entity_id is a fresh uuid per row)
  dob_permits,         \* id -> row
  lastCall,      \* history: the last statement run against the four tables
  ops,           \* history: number of statements run
  mvt_cache,     \* the rows of mvt_cache: key (z, x, y, date), mvt bytes
                 \* and updated_at
  tiles,         \* what dob_permit_tiles returns now: (z, x, y, date) -> bytes
  tpc,           \* position of each invocation of the tiles handler
  req,           \* the tile request it serves
  data,          \* the answer of the dob_permit_tiles rpc (text)
  tileData,      \* let tileData
  pending,       \* cache upserts issued and not yet settled
  tresp,         \* the response of the tile request
  lookups, rpcCalls, cacheWrites,   \* history: store accesses of the request
  served,        \* history: number of tile requests received
  writeFate,     \* history: what became of the request's cache upsert
  lastWritten,   \* history: key -> bytes of the last upsert that was applied
  generated,     \* history: keys for which dob_permit_tiles has answered
  stale          \* history: keys whose permits changed after that

vars == <<upstream, clock, store, syncState, pc, mode, since, until,
          watermark, page, newestSeen, maxUpdatedAt, totalProcessed,
          retries, retryDelay, records, resp, attempts, delays, lastFetch,
          stateWrites, startLB, wmBefore, prev, allIncr, allOk, runs,
          applied, probe, trail, second,
          dob_buildings, dob_permit_details, dob_entities, dob_permits,
          lastCall, ops,
          mvt_cache, tiles, tpc, req, data, tileData, pending, tresp,
          lookups, rpcCalls, cacheWrites, served, writeFate, lastWritten,
          generated, stale>>

envVars == <<upstream, clock>>
paramVars == <<mode, since, until, watermark>>
loopVars == <<page, newestSeen, maxUpdatedAt, totalProcessed>>
retryVars == <<retries, retryDelay, attempts, delays, lastFetch>>
histVars == <<startLB, wmBefore, prev, allIncr, allOk, runs, applied, probe,
              trail>>
syncVars == <<envVars, store, syncState, pc, paramVars, loopVars, retryVars,
              records, resp, stateWrites, histVars, second>>
tableVars == <<dob_buildings, dob_permit_details, dob_entities, dob_permits>>
pageVars == <<tableVars, lastCall, ops>>
tileVars == <<mvt_cache, tiles, tpc, req, data, tileData, pending, tresp,
              lookups, rpcCalls, cacheWrites, served, writeFate, lastWritten,
              generated, stale>>

\* ---------------------------------------------------------------- helpers
Max(S) == CHOOSE x \in S : \A y \in S : y <= x

NoResp == [status |-> 0, success |-> FALSE]
OkResp == [status |-> 200, success |-> TRUE]
ErrResp == [status |-> 500, success |-> FALSE]

NoRun == [tag |-> "none", val |-> None]

\* SQL null of a text value (r->>'key' of a missing key)
NullText == "<null>"
\* SQL null of a text value that the function trims (texts of characters)
NullName == <<"<null>">>
\* SQL null of a double precision value
NullDouble == 1000
\* SQL null of a geometry value
NullGeom == <<>>

\* no statement has run yet
NoCall == [op |-> "none", rows |-> <<>>, pick |-> "first", error |-> FALSE,
           inserted |-> 0, updated |-> 0, max_updated |-> None,
           id |-> 0, geom |-> NullGeom]

\* let tileData: ArrayBuffer | null = null
NullBytes == <<-1>>
NoKey == <<-1, -1, -1, NullText>>
NoReq == [n |-> 0, path |-> <<>>, date |-> NullText, ifNoneMatch |-> NullName,
          key |-> NoKey, atArrival |-> NullBytes]
NoTileResp == [status |-> 0, body |-> NullBytes, etag |-> NullName,
               cacheControl |-> NullText]
\* the invocations of the tiles handler that can run side by side
Handlers == {1, 2}

\* now.toISOString().split('T')[0]
Today == "2024-01-16"
\* the tiles of the model: (z, x, y, date)
Keys ==
  {<<c[1], c[2], 0, d>> :
     c \in {<<0, 0>>, <<1, 0>>}, d \in {"2024-01-15", Today}}

\* current_dob_watermark(): coalesce(max(updated_at), '1970-01-01')
CurrentDobWatermark(st) ==
  Max({st[i] : i \in Ids} \cup {Epoch})

\* $order :updated_at ASC (ties in id order)
Before(up, a, b) == up[a] < up[b] \/ (up[a] = up[b] /\ a <= b)

RECURSIVE SortAsc(_, _)
SortAsc(up, S) ==
  IF S = {} THEN <<>>
  ELSE LET m == CHOOSE a \in S : \A b \in S : Before(up, a, b)
       IN  <<[id |-> m, updated_at |-> up[m]]>> \o SortAsc(up, S \ {m})

\* $where :updated_at > newestSeen [AND :updated_at <= until]
Matching(up, lower, upper) ==
  {i \in Ids : up[i] # Absent /\ up[i] > lower
               /\ (upper # None => up[i] <= upper)}

\* One page request: $where, $order, $offset = page * PAGE_SIZE, $limit
PageQuery(up, lower, upper, pg) ==
  LET all == SortAsc(up, Matching(up, lower, upper))
      first == pg * PAGE_SIZE + 1
      last == IF Len(all) < first + PAGE_SIZE - 1 THEN Len(all)
              ELSE first + PAGE_SIZE - 1
  IN  SubSeq(all, first, last)

\* upsert_dob_permits: permits_upsert, on conflict (id) do update
UpsertDobPermitsFirstRow(st, rows) ==
  [i \in Ids |-> IF rows[1].id = i THEN rows[1].updated_at ELSE st[i]]
UpsertDobPermits(st, rows) ==
  [i \in Ids |->
     IF \E k \in 1..Len(rows) : rows[k].id = i
     THEN rows[CHOOSE k \in 1..Len(rows) : rows[k].id = i].updated_at
     ELSE st[i]]

\* upsert_dob_permits: (select max(updated_at) from stage)
MaxUpdatedFirstRow(rows) == rows[1].updated_at
MaxUpdated(rows) == Max({rows[k].updated_at : k \in 1..Len(rows)})

\* the guard of the dataset_sync_state upsert
ShouldPersistIgnoringUntil(s, u, maxU, m) ==
  s = None /\ (maxU # None \/ m = "historical")
ShouldPersist(s, u, maxU, m) ==
  s = None /\ u = None /\ (maxU # None \/ m = "historical")

\* retryDelay *= 2
NextDelayConstant(d) == d
NextDelay(d) == d * 2

\* the kind of a run: a since/until run, or its mode
Kind(m, s, u) ==
  IF s # None \/ u # None THEN "range" ELSE m

\* What the next run needs to know of the run that is ending:
\*   "synced"   a successful incremental run that produced watermark val
\*   "aborted"  a failed or abandoned incremental run whose lower bound was val
\*   "range"    a since/until run; current_dob_watermark() was val before it
Summary(outcome) ==
  LET k == Kind(mode, since, until) IN
  IF k = "range" THEN [tag |-> "range", val |-> wmBefore]
  ELSE IF k = "incremental" /\ outcome = "ok" /\ maxUpdatedAt # None
       THEN [tag |-> "synced", val |-> maxUpdatedAt]
  ELSE IF k = "incremental" /\ outcome # "ok" /\ startLB # None
       THEN [tag |-> "aborted", val |-> startLB]
  ELSE [tag |-> "other", val |-> None]

\* the second invocation before it is called; overlap and runs0 are history:
\* whether the two invocations were in flight together, and the number of
\* runs the first handler had started when the second was called
NoSecond ==
  [pc |-> "idle", mode |-> "incremental", watermark |-> None,
   newestSeen |-> Epoch, maxUpdatedAt |-> None, page |-> 0,
   records |-> <<>>, success |-> FALSE, wrote |-> None,
   overlap |-> FALSE, runs0 |-> 0]

\* entries of trail: a page that a fetch returned (with the lower bound of
\* its $where), and a call of upsert_dob_permits (with how it answered)
Fetched(pg, lower, rows) ==
  [op |-> "fetch", page |-> pg, lower |-> lower, rows |-> rows, ok |-> TRUE]
SubmittedPage(pg, rows, ok) ==
  [op |-> "upsert", page |-> pg, lower |-> None, rows |-> rows, ok |-> ok]

\* ------------------------------------------------------------------- Init
Init ==
  /\ upstream = [i \in Ids |-> Absent]
  /\ clock = 1
  /\ store = [i \in Ids |-> Absent]
  /\ syncState = None
  /\ pc = "idle"
  /\ mode = "incremental" /\ since = None /\ until = None
  /\ watermark = None
  /\ page = 0 /\ newestSeen = Epoch /\ maxUpdatedAt = None
  /\ totalProcessed = 0
  /\ retries = InitialRetries /\ retryDelay = InitialRetryDelay
  /\ records = <<>>
  /\ resp = NoResp
  /\ attempts = 0 /\ delays = <<>> /\ lastFetch = "none"
  /\ stateWrites = 0
  /\ startLB = None /\ wmBefore = None
  /\ prev = NoRun
  /\ allIncr = TRUE
  /\ allOk = TRUE
  /\ runs = 0
  /\ applied = {}
  /\ probe = "none"
  /\ trail = <<>>
  /\ second = NoSecond
  /\ dob_buildings = <<>>
  /\ dob_permit_details = <<>>
  /\ dob_entities = EmptyBag
  /\ dob_permits = <<>>
  /\ lastCall = NoCall
  /\ ops = 0
  /\ mvt_cache = {}
  /\ tiles = [k \in Keys |-> <<>>]
  /\ tpc = [p \in Handlers |-> "idle"]
  /\ req = [p \in Handlers |-> NoReq]
  /\ data = [p \in Handlers |-> NullName]
  /\ tileData = [p \in Handlers |-> NullBytes]
  /\ pending = {}
  /\ tresp = [p \in Handlers |-> NoTileResp]
  /\ lookups = [p \in Handlers |-> 0]
  /\ rpcCalls = [p \in Handlers |-> 0]
  /\ cacheWrites = [p \in Handlers |-> 0]
  /\ served = 0
  /\ writeFate = [p \in Handlers |-> "none"]
  /\ lastWritten = [k \in Keys |-> NullBytes]
  /\ generated = {}
  /\ stale = {}

\* ------------------------------------------------------------ environment
\* The upstream creates or modifies a record: its :updated_at becomes now.
UpstreamPut(i) ==
  /\ pc = "idle"
  /\ upstream[i] # clock
  /\ \A j \in Ids : j < i => upstream[j] # Absent
  /\ upstream' = [upstream EXCEPT ![i] = clock]
  /\ UNCHANGED <<clock, store, syncState, pc, paramVars, loopVars, retryVars,
                 records, resp, stateWrites, histVars>>
  /\ UNCHANGED <<pageVars, tileVars, second>>

Tick ==
  /\ pc = "idle"
  /\ clock < MaxTime
  /\ clock' = clock + 1
  /\ UNCHANGED <<upstream, store, syncState, pc, paramVars, loopVars,
                 retryVars, records, resp, stateWrites, histVars>>
  /\ UNCHANGED <<pageVars, tileVars, second>>

\* ------------------------------------------------------- the sync handler
\* let page = 0 ... let maxUpdatedAt = null, and the retry state of a page
EnterLoop(w) ==
  /\ page' = 0
  /\ totalProcessed' = 0
  /\ newestSeen' = IF w # None THEN w ELSE Epoch
  /\ maxUpdatedAt' = None
  /\ retries' = InitialRetries
  /\ retryDelay' = InitialRetryDelay
  /\ attempts' = 0
  /\ delays' = <<>>
  /\ lastFetch' = "none"

\* catch (error): respond {success:false, error} with status 500
Fail ==
  /\ resp' = ErrResp
  /\ pc' = "done"

\* Request parameters and watermark selection.
StartRun(m, s, u, rpcOk) ==
  /\ pc = "idle"
  /\ runs < MaxRuns
  /\ runs' = runs + 1
  /\ mode' = m /\ since' = s /\ until' = u
  /\ allIncr' = (allIncr /\ m = "incremental" /\ s = None /\ u = None)
  /\ wmBefore' = CurrentDobWatermark(store)
  /\ stateWrites' = 0
  /\ records' = <<>>
  /\ probe' = "none"
  /\ trail' = <<>>
  /\ UNCHANGED <<envVars, store, syncState, prev, allOk, applied>>
  /\ IF s # None
     THEN /\ rpcOk
          /\ watermark' = s
          /\ startLB' = s
          /\ EnterLoop(s)
          /\ resp' = NoResp
          /\ pc' = "fetch"
     ELSE IF m = "incremental"
     THEN IF rpcOk
          THEN /\ watermark' = CurrentDobWatermark(store)
               /\ startLB' = CurrentDobWatermark(store)
               /\ EnterLoop(CurrentDobWatermark(store))
               /\ resp' = NoResp
               /\ pc' = IF u = None THEN "preflight" ELSE "fetch"
          ELSE /\ watermark' = None
               /\ startLB' = None
               /\ EnterLoop(None)
               /\ Fail
     ELSE /\ rpcOk
          /\ watermark' = None
          /\ startLB' = Epoch
          /\ EnterLoop(None)
          /\ resp' = NoResp
          /\ pc' = "fetch"
  /\ UNCHANGED <<pageVars, tileVars, second>>

\* Preflight probe: select max(:updated_at) where :updated_at > watermark
Preflight(outcome) ==
  /\ pc = "preflight"
  /\ probe' = outcome
  /\ UNCHANGED <<envVars, store, syncState, paramVars, loopVars, retryVars,
                 records, stateWrites, startLB, wmBefore, prev, allIncr,
                 allOk, runs, applied, trail>>
  /\ CASE outcome = "ok" ->
            IF Matching(upstream, watermark, None) = {}
            THEN resp' = OkResp /\ pc' = "done"
            ELSE resp' = resp /\ pc' = "fetch"
       [] outcome = "notok" -> resp' = resp /\ pc' = "fetch"
       [] outcome = "throw" -> Fail
  /\ UNCHANGED <<pageVars, tileVars, second>>

\* One iteration of the retry loop: a fetch of the current page.
\*   "ok"        response.ok
\*   "transient" status 429 or 5xx
\*   "client"    another non-OK status, such as 400
\*   "throw"     fetch itself rejects
BackoffKeepsRetries ==
  /\ delays' = Append(delays, retryDelay)
  /\ retryDelay' = NextDelay(retryDelay)
  /\ retries' = retries
Backoff ==
  /\ delays' = Append(delays, retryDelay)
  /\ retryDelay' = NextDelay(retryDelay)
  /\ retries' = retries - 1

FetchAttemptTwice(outcome) ==
  /\ pc = "fetch"
  /\ retries > 0
  /\ attempts' = attempts + 1
  /\ lastFetch' = outcome
  /\ UNCHANGED <<envVars, store, syncState, paramVars, loopVars, stateWrites,
                 startLB, wmBefore, prev, allIncr, allOk, runs, applied,
                 probe>>
  /\ IF outcome = "ok"
     THEN /\ records' = PageQuery(upstream, newestSeen, until, page)
          /\ pc' = IF records' = <<>> THEN "finish"
                   ELSE IF lastFetch = "ok" THEN "apply" ELSE "fetch"
          /\ UNCHANGED <<retries, retryDelay, delays, resp>>
     ELSE IF retries > 1
     THEN /\ Backoff
          /\ UNCHANGED <<records, resp, pc>>
     ELSE /\ Fail
          /\ UNCHANGED <<retries, retryDelay, delays, records>>
  /\ trail' = IF outcome = "ok"
              THEN Append(trail, Fetched(page, newestSeen, records'))
              ELSE trail
  /\ UNCHANGED <<pageVars, tileVars, second>>
FetchAttempt(outcome) ==
  /\ pc = "fetch"
  /\ retries > 0
  /\ attempts' = attempts + 1
  /\ lastFetch' = outcome
  /\ UNCHANGED <<envVars, store, syncState, paramVars, loopVars, stateWrites,
                 startLB, wmBefore, prev, allIncr, allOk, runs, applied,
                 probe>>
  /\ IF outcome = "ok"
     THEN /\ records' = PageQuery(upstream, newestSeen, until, page)
          /\ pc' = IF records' = <<>> THEN "finish" ELSE "apply"
          /\ UNCHANGED <<retries, retryDelay, delays, resp>>
     ELSE IF retries > 1
     THEN /\ Backoff
          /\ UNCHANGED <<records, resp, pc>>
     ELSE /\ Fail
          /\ UNCHANGED <<retries, retryDelay, delays, records>>
  /\ trail' = IF outcome = "ok"
              THEN Append(trail, Fetched(page, newestSeen, records'))
              ELSE trail
  /\ UNCHANGED <<pageVars, tileVars, second>>

\* supabase.rpc('upsert_dob_permits', {_rows: records}) answers an error:
\* the transaction of the page is rolled back and the run throws.
UpsertFailsAfterStateWrite ==
  /\ pc = "apply"
  /\ Fail
  /\ syncState' = newestSeen
  /\ stateWrites' = stateWrites + 1
  /\ trail' = Append(trail, SubmittedPage(page, records, FALSE))
  /\ UNCHANGED <<envVars, store, paramVars, loopVars, retryVars,
                 records, startLB, wmBefore, prev, allIncr, allOk, runs,
                 applied, probe>>
  /\ UNCHANGED <<pageVars, tileVars, second>>
UpsertFails ==
  /\ pc = "apply"
  /\ Fail
  /\ trail' = Append(trail, SubmittedPage(page, records, FALSE))
  /\ UNCHANGED <<envVars, store, syncState, paramVars, loopVars, retryVars,
                 records, stateWrites, startLB, wmBefore, prev, allIncr,
                 allOk, runs, applied, probe>>
  /\ UNCHANGED <<pageVars, tileVars, second>>

\* The page is applied; the rolling watermark advances; next page or exit.
ApplyPage ==
  /\ pc = "apply"
  /\ store' = UpsertDobPermits(store, records)
  /\ IF MaxUpdated(records) > newestSeen
     THEN /\ newestSeen' = MaxUpdated(records)
          /\ maxUpdatedAt' = MaxUpdated(records)
     ELSE UNCHANGED <<newestSeen, maxUpdatedAt>>
  /\ totalProcessed' = totalProcessed + Len(records)
  /\ IF Len(records) < PAGE_SIZE
     THEN /\ pc' = "finish"
          /\ UNCHANGED <<page, retryVars>>
     ELSE /\ pc' = "fetch"
          /\ page' = page + 1
          /\ retries' = InitialRetries
          /\ retryDelay' = InitialRetryDelay
          /\ attempts' = 0
          /\ delays' = <<>>
          /\ lastFetch' = "none"
  /\ applied' = applied \cup {records[k].updated_at : k \in 1..Len(records)}
  /\ trail' = Append(trail, SubmittedPage(page, records, TRUE))
  /\ UNCHANGED <<envVars, syncState, paramVars, records, resp, stateWrites,
                 startLB, wmBefore, prev, allIncr, allOk, runs, probe>>
  /\ UNCHANGED <<pageVars, tileVars, second>>

\* After the loop: the dataset_sync_state upsert and the success response.
FinishWritesNull(writeOk) ==
  /\ pc = "finish"
  /\ UNCHANGED <<envVars, store, paramVars, loopVars, retryVars, records,
                 histVars>>
  /\ IF since = None /\ until = None
     THEN IF writeOk
          THEN /\ syncState' = maxUpdatedAt
               /\ stateWrites' = stateWrites + 1
               /\ resp' = OkResp
               /\ pc' = "done"
          ELSE /\ Fail
               /\ UNCHANGED <<syncState, stateWrites>>
     ELSE /\ writeOk
          /\ resp' = OkResp
          /\ pc' = "done"
          /\ UNCHANGED <<syncState, stateWrites>>
  /\ UNCHANGED <<pageVars, tileVars, second>>
Finish(writeOk) ==
  /\ pc = "finish"
  /\ UNCHANGED <<envVars, store, paramVars, loopVars, retryVars, records,
                 histVars>>
  /\ IF ShouldPersist(since, until, maxUpdatedAt, mode)
     THEN IF writeOk
          THEN /\ syncState' = IF maxUpdatedAt # None THEN maxUpdatedAt
                                                      ELSE clock
               /\ stateWrites' = stateWrites + 1
               /\ resp' = OkResp
               /\ pc' = "done"
          ELSE /\ Fail
               /\ UNCHANGED <<syncState, stateWrites>>
     ELSE /\ writeOk
          /\ resp' = OkResp
          /\ pc' = "done"
          /\ UNCHANGED <<syncState, stateWrites>>
  /\ UNCHANGED <<pageVars, tileVars, second>>

\* The run is abandoned mid-flight (the function is killed): no response.
Abandon ==
  /\ pc \in {"preflight", "fetch", "apply", "finish"}
  /\ pc' = "done"
  /\ resp' = NoResp
  /\ UNCHANGED <<envVars, store, syncState, paramVars, loopVars, retryVars,
                 records, stateWrites, histVars>>
  /\ UNCHANGED <<pageVars, tileVars, second>>

Outcome ==
  IF resp.success THEN "ok" ELSE IF resp.status = 500 THEN "failed"
  ELSE "abandoned"

\* The response has been delivered and the handler's locals are gone; the
\* next request can be served.
Return ==
  /\ pc = "done"
  /\ pc' = "idle"
  /\ prev' = Summary(Outcome)
  /\ allOk' = (allOk /\ Outcome = "ok")
  /\ mode' = "incremental" /\ since' = None /\ until' = None
  /\ watermark' = None
  /\ page' = 0 /\ newestSeen' = Epoch /\ maxUpdatedAt' = None
  /\ totalProcessed' = 0
  /\ retries' = InitialRetries /\ retryDelay' = InitialRetryDelay
  /\ records' = <<>>
  /\ resp' = NoResp
  /\ attempts' = 0 /\ delays' = <<>> /\ lastFetch' = "none"
  /\ stateWrites' = 0
  /\ startLB' = None /\ wmBefore' = None
  /\ probe' = "none"
  /\ trail' = <<>>
  /\ UNCHANGED <<envVars, store, syncState, allIncr, runs, applied>>
  /\ UNCHANGED <<pageVars, tileVars, second>>

Next ==
  \/ \E i \in Ids : UpstreamPut(i)
  \/ Tick
  \/ \E m \in Modes, s \in SinceVals, u \in UntilVals, ok \in BOOLEAN :
       StartRun(m, s, u, ok)
  \/ \E o \in {"ok", "notok", "throw"} : Preflight(o)
  \/ \E o \in {"ok", "transient", "client", "throw"} : FetchAttempt(o)
  \/ UpsertFails
  \/ ApplyPage
  \/ \E ok \in BOOLEAN : Finish(ok)
  \/ Abandon
  \/ Return

Spec == Init /\ [][Next]_vars

Running == pc \in {"preflight", "fetch", "apply", "finish"}
NoRange == since = None /\ until = None
StoredWatermark == IF syncState = None THEN Epoch ELSE syncState

\* ------------------------------------------------------------------ claims

\* C1: after a successful incremental run produced watermark W, a following
\* successful incremental run whose lower bound is W leaves no upstream
\* record with updated_at > W unapplied.
C1_NoRecordSkipped ==
  (/\ pc = "done" /\ resp.success
   /\ mode = "incremental" /\ NoRange
   /\ prev.tag = "synced" /\ prev.val = startLB)
  => \A i \in Ids : upstream[i] > startLB => store[i] = upstream[i]

\* C2: when a successful run without since/until has persisted watermark W,
\* every upstream record with lower bound < updated_at <= W is in the store.
C2_WatermarkFullyApplied ==
  (pc = "done" /\ resp.success /\ NoRange /\ stateWrites = 1)
  => \A i \in Ids :
       (upstream[i] > startLB /\ upstream[i] <= syncState)
       => store[i] = upstream[i]

\* C3: while every run has been incremental without since/until, the
\* persisted watermark never decreases.
C3_IncrementalWatermarkMonotone ==
  [][allIncr => syncState' >= syncState]_vars

C3_Witness ==
  /\ allIncr /\ pc = "done" /\ stateWrites = 1
  /\ prev.tag = "synced" /\ syncState > prev.val

\* C4: while every run of any mode has succeeded, the persisted watermark
\* never decreases.
C4_WatermarkMonotoneAnyMode ==
  [][allOk => syncState' >= syncState]_vars

C6_RetryFromSamePoint ==
  (/\ pc # "idle" /\ mode = "incremental" /\ NoRange /\ startLB # None
   /\ prev.tag = "aborted")
  => startLB = prev.val

\* C7: a run given since or until never changes dataset_sync_state.
C7_RangeRunNeverWritesState ==
  [][(since # None \/ until # None) => syncState' = syncState]_vars

C7_Witness ==
  /\ pc = "done" /\ resp.success /\ mode = "historical"
  /\ since = None /\ until # None
  /\ totalProcessed > 0 /\ maxUpdatedAt # None

\* C8: after a since/until run, the next incremental run starts from the
\* lower bound it would have used had the since/until run not happened.
C8_RangeRunKeepsIncrementalStart ==
  (/\ pc # "idle" /\ mode = "incremental" /\ NoRange /\ startLB # None
   /\ prev.tag = "range")
  => startLB = prev.val

\* C9: an incremental run without since starts from the value persisted in
\* dataset_sync_state (the epoch when there is none); a historical run
\* without since starts from the epoch.
C9_StartsFromStoredWatermark ==
  (Running /\ since = None /\ startLB # None)
  => /\ mode = "incremental" => startLB = StoredWatermark
     /\ mode = "historical" => startLB = Epoch

\* C10: for each page the backoff delays are 1000 ms, 2000 ms; at most 3
\* fetch attempts are made, each failed attempt but the last is followed by
\* one delay, and a failed third attempt ends the run with the error response.
C10_RetryShape ==
  /\ attempts <= InitialRetries
  /\ Len(delays) <= InitialRetries - 1
  /\ \A k \in 1..Len(delays) : delays[k] = InitialRetryDelay * 2^(k - 1)
  /\ pc = "fetch" => (Len(delays) = attempts /\ retries = InitialRetries - attempts)

C10_ThirdFailureAborts ==
  [][(pc = "fetch" /\ attempts = InitialRetries - 1
      /\ attempts' = InitialRetries)
     => \/ pc' \in {"apply", "finish"}
        \/ pc' = "done" /\ resp' = ErrResp]_vars

C10_RetryBackoff == []C10_RetryShape /\ C10_ThirdFailureAborts

C10_Witness ==
  /\ pc = "done" /\ resp = ErrResp
  /\ attempts = 3 /\ delays = <<1000, 2000>>

\* C11: a non-transient failure of a page request (a non-OK status that is
\* neither 429 nor 5xx) ends the run at once: one fetch, no backoff delay.
C11_ClientErrorAbortsAtOnce ==
  lastFetch = "client"
  => (pc = "done" /\ resp = ErrResp /\ attempts = 1 /\ delays = <<>>)

\* =================================================== upsert_dob_permits
\* A record of the page (_rows element) keeps the fields the function casts,
\* keys its tables on, or builds entities from.  Date and coordinate values
\* are JSON texts; names are texts of characters.
MaxOps == 2

\* texts that cast to a date / timestamptz, and the instant they denote
DateOf ==
  [t \in {"2024-01-01", "2024-01-02"} |-> IF t = "2024-01-01" THEN 1 ELSE 2]

\* (text)::date, (text)::timestamptz: null stays null, '' and other texts
\* that are no date raise
CastRaises(t) == t # NullText /\ t \notin DOMAIN DateOf
Cast(t) == IF t = NullText THEN None ELSE DateOf[t]

\* case when s is not null and s != '' then s::timestamptz else null end
GuardedCastRaises(t) == t # NullText /\ t # "" /\ CastRaises(t)
GuardedCast(t) == IF t = NullText \/ t = "" THEN None ELSE Cast(t)

\* texts that cast to double precision, and their value
DoubleOf ==
  [t \in {"-91", "90", "-180", "181"} |->
     CASE t = "-91" -> -91 [] t = "90" -> 90
       [] t = "-180" -> -180 [] t = "181" -> 181]
CastDoubleRaises(t) == t # NullText /\ t \notin DOMAIN DoubleOf
CastDouble(t) == IF t = NullText THEN NullDouble ELSE DoubleOf[t]

\* trim(text)
RECURSIVE LTrim(_)
LTrim(s) == IF s # <<>> /\ Head(s) = " " THEN LTrim(Tail(s)) ELSE s
RECURSIVE RTrim(_)
RTrim(s) ==
  IF s # <<>> /\ s[Len(s)] = " " THEN RTrim(SubSeq(s, 1, Len(s) - 1)) ELSE s
Trim(s) == IF s = NullName THEN NullName ELSE RTrim(LTrim(s))
NullIf(a, b) == IF a = b THEN NullName ELSE a
Coalesce(a, b) == IF a = NullName THEN b ELSE a
\* x is not null and trim(x) != ''
NonBlank(s) == s # NullName /\ Trim(s) # <<>>

\* order by ... full_name: texts compare character by character
Chars == <<" ", "A", "B", "X", "Y">>
Rank(c) == CHOOSE k \in 1..Len(Chars) : Chars[k] = c
RECURSIVE TextLeq(_, _)
TextLeq(a, b) ==
  IF a = <<>> THEN TRUE
  ELSE IF b = <<>> THEN FALSE
  ELSE IF Head(a) = Head(b) THEN TextLeq(Tail(a), Tail(b))
  ELSE Rank(Head(a)) < Rank(Head(b))

\* stage: the casts made for every element of _rows
StageRaises(rows) ==
  \E k \in 1..Len(rows) :
    \/ CastRaises(rows[k].updated_at)
    \/ CastRaises(rows[k].permit_status_date)
    \/ CastRaises(rows[k].expiration_date)
    \/ CastRaises(rows[k].job_start_date)
    \/ CastDoubleRaises(rows[k].gis_latitude)
    \/ CastDoubleRaises(rows[k].gis_longitude)

\* permit_details_upsert: filing_date is cast for rows with a permit number
DetailsRaises(rows) ==
  \E k \in 1..Len(rows) :
    rows[k].permit_number # NullText /\ GuardedCastRaises(rows[k].filing_date)

\* permits_upsert: the guarded casts, updated_at not null, and on conflict
\* do update refusing to affect a row a second time
PermitsRaises(rows) ==
  \/ \E k \in 1..Len(rows) :
       \/ GuardedCastRaises(rows[k].issuance_date)
       \/ GuardedCastRaises(rows[k].dobrundate)
       \/ rows[k].updated_at = NullText
  \/ \E j, k \in 1..Len(rows) : j # k /\ rows[j].id = rows[k].id

UpsertRaises(rows) ==
  StageRaises(rows) \/ DetailsRaises(rows) \/ PermitsRaises(rows)

\* select distinct on (key) with no order by keeps one row of each key; the
\* row kept is not specified: the first or the last of the page
Pick(rows, S, pick) ==
  IF pick = "first" THEN CHOOSE k \in S : \A j \in S : k <= j
  ELSE CHOOSE k \in S : \A j \in S : j <= k

\* buildings_upsert
BuildingsUpsert(b, rows, pick) ==
  LET bins == {rows[k].bin : k \in 1..Len(rows)} \ {NullText}
      row(n) == rows[Pick(rows, {k \in 1..Len(rows) : rows[k].bin = n}, pick)]
  IN  [n \in DOMAIN b \cup bins |->
         IF n \in bins THEN row(n).street_name ELSE b[n]]

\* permit_details_upsert
PermitDetailsUpsert(d, rows, pick) ==
  LET nums == {rows[k].permit_number : k \in 1..Len(rows)} \ {NullText}
      row(n) ==
        rows[Pick(rows, {k \in 1..Len(rows) : rows[k].permit_number = n},
                  pick)]
  IN  [n \in DOMAIN d \cup nums |->
         IF n \in nums THEN GuardedCast(row(n).filing_date) ELSE d[n]]

\* entities_upsert: the owner and permittee candidates of the page
Candidate(type, biz, first, lastName) ==
  [entity_type |-> type,
   full_name |-> Trim(Coalesce(first, <<>>) \o <<" ">>
                        \o Coalesce(lastName, <<>>)),
   business_name |-> NullIf(Trim(biz), <<>>)]

Candidates(rows) ==
  {Candidate("owner", rows[k].owner_s_business_name,
             rows[k].owner_s_first_name, rows[k].owner_s_last_name) :
     k \in {j \in 1..Len(rows) :
              \/ NonBlank(rows[j].owner_s_business_name)
              \/ NonBlank(rows[j].owner_s_first_name)
              \/ NonBlank(rows[j].owner_s_last_name)}}
  \cup
  {Candidate("permittee", rows[k].permittee_s_business_name,
             rows[k].permittee_s_first_name, rows[k].permittee_s_last_name) :
     k \in {j \in 1..Len(rows) :
              \/ NonBlank(rows[j].permittee_s_business_name)
              \/ NonBlank(rows[j].permittee_s_first_name)
              \/ NonBlank(rows[j].permittee_s_last_name)}}

\* select distinct on (entity_type, business_name) ... order by entity_type,
\* business_name nulls last, full_name: nulls are one group
DistinctOn(cands) ==
  {c \in cands :
     \A e \in cands :
       (e.entity_type = c.entity_type /\ e.business_name = c.business_name)
       => TextLeq(c.full_name, e.full_name)}

SameBusiness(a, b) ==
  /\ a.business_name # NullName
  /\ a.entity_type = b.entity_type
  /\ a.business_name = b.business_name

\* insert ... on conflict (entity_type, business_name)
\*   where business_name is not null do update
EntitiesUpsertNoConflict(e, rows) ==
  e (+) SetToBag(DistinctOn(Candidates(rows)))
EntitiesUpsert(e, rows) ==
  LET new == DistinctOn(Candidates(rows))
      kept == {r \in DOMAIN e : \A c \in new : ~SameBusiness(c, r)}
  IN  [r \in kept |-> e[r]] (+) SetToBag(new)

\* ST_SetSRID(ST_Point(lon, lat), 4326)
STPoint(lon, lat) == <<lon, lat>>

\* trigger_populate_geom: before insert or update, for each row
PopulateGeomKeepsWritten(new) ==
  IF new.geom # NullGeom THEN new
  ELSE IF /\ new.gis_latitude # NullDouble
          /\ new.gis_longitude # NullDouble
          /\ new.gis_latitude >= -90 /\ new.gis_latitude <= 90
          /\ new.gis_longitude >= -180 /\ new.gis_longitude <= 180
  THEN [new EXCEPT !.geom = STPoint(new.gis_longitude, new.gis_latitude)]
  ELSE new
PopulateGeomFromCoords(new) ==
  IF /\ new.gis_latitude # NullDouble
     /\ new.gis_longitude # NullDouble
     /\ new.gis_latitude >= -90 /\ new.gis_latitude <= 90
     /\ new.gis_longitude >= -180 /\ new.gis_longitude <= 180
  THEN [new EXCEPT !.geom = STPoint(new.gis_longitude, new.gis_latitude)]
  ELSE [new EXCEPT !.geom = NullGeom]

\* permits_upsert: the row proposed for one element of _rows; an insert
\* starts from a null geom, an update from the geom of the existing row
PermitRow(p, r) ==
  PopulateGeomFromCoords(
    [updated_at |-> Cast(r.updated_at),
     bin |-> r.bin,
     permit_number |-> r.permit_number,
     gis_latitude |-> CastDouble(r.gis_latitude),
     gis_longitude |-> CastDouble(r.gis_longitude),
     permit_issuance_date |-> GuardedCast(r.issuance_date),
     expiration_date |-> Cast(r.expiration_date),
     job_start_date |-> Cast(r.job_start_date),
     dobrundate |-> GuardedCast(r.dobrundate),
     geom |-> IF r.id \in DOMAIN p THEN p[r.id].geom ELSE NullGeom])

PermitsUpsertReplacing(p, rows) ==
  LET ids == {rows[k].id : k \in 1..Len(rows)}
      row(i) == rows[CHOOSE k \in 1..Len(rows) : rows[k].id = i]
  IN  [i \in ids |-> PermitRow(p, row(i))]
PermitsUpsert(p, rows) ==
  LET ids == {rows[k].id : k \in 1..Len(rows)}
      row(i) == rows[CHOOSE k \in 1..Len(rows) : rows[k].id = i]
  IN  [i \in DOMAIN p \cup ids |->
         IF i \in ids THEN PermitRow(p, row(i)) ELSE p[i]]

\* returning (xmax = 0)::int as ins_flag, (xmax <> 0)::int as upd_flag
InsFlagAlways(p, r) == 1
InsFlag(p, r) == IF r.id \in DOMAIN p THEN 0 ELSE 1
UpdFlag(p, r) == IF r.id \in DOMAIN p THEN 1 ELSE 0

\* (select max(updated_at) from stage)
StageMaxUpdated(rows) == Max({Cast(rows[k].updated_at) : k \in 1..Len(rows)})

\* select * from upsert_dob_permits(_rows): one statement, so an error
\* leaves the four tables as they were
CallUpsertDobPermits(rows, pick) ==
  /\ ops < MaxOps
  /\ ops' = ops + 1
  /\ IF UpsertRaises(rows)
     THEN /\ lastCall' = [NoCall EXCEPT !.op = "upsert", !.rows = rows,
                                    !.pick = pick, !.error = TRUE]
          /\ UNCHANGED tableVars
     ELSE /\ dob_buildings' = BuildingsUpsert(dob_buildings, rows, pick)
          /\ dob_permit_details' =
               PermitDetailsUpsert(dob_permit_details, rows, pick)
          /\ dob_entities' = EntitiesUpsert(dob_entities, rows)
          /\ dob_permits' = PermitsUpsert(dob_permits, rows)
          /\ lastCall' =
               [NoCall EXCEPT
                  !.op = "upsert", !.rows = rows, !.pick = pick,
                  !.inserted =
                    Cardinality({k \in 1..Len(rows) :
                                   InsFlag(dob_permits, rows[k]) = 1}),
                  !.updated =
                    Cardinality({k \in 1..Len(rows) :
                                   UpdFlag(dob_permits, rows[k]) = 1}),
                  !.max_updated = StageMaxUpdated(rows)]
  /\ UNCHANGED <<syncVars, tileVars>>

\* update dob_permits set gis_latitude = lat, gis_longitude = lon, geom = g
\*   where id = i
UpdatePermit(i, lat, lon, g) ==
  /\ ops < MaxOps
  /\ ops' = ops + 1
  /\ i \in DOMAIN dob_permits
  /\ dob_permits' =
       [dob_permits EXCEPT
          ![i] = PopulateGeomFromCoords(
                   [@ EXCEPT !.gis_latitude = lat, !.gis_longitude = lon,
                             !.geom = g])]
  /\ lastCall' = [NoCall EXCEPT !.op = "update", !.id = i, !.geom = g]
  /\ UNCHANGED <<dob_buildings, dob_permit_details, dob_entities>>
  /\ UNCHANGED <<syncVars, tileVars>>

\* ------------------------------------------------- the pages of the model
Record(i) ==
  [id |-> i, updated_at |-> "2024-01-01",
   bin |-> NullText, street_name |-> NullText, permit_number |-> NullText,
   permit_status_date |-> NullText, issuance_date |-> NullText,
   expiration_date |-> NullText, job_start_date |-> NullText,
   dobrundate |-> NullText, filing_date |-> NullText,
   gis_latitude |-> NullText, gis_longitude |-> NullText,
   owner_s_business_name |-> NullName, owner_s_first_name |-> NullName,
   owner_s_last_name |-> NullName,
   permittee_s_business_name |-> NullName,
   permittee_s_first_name |-> NullName,
   permittee_s_last_name |-> NullName]

DateFields == {"issuance_date", "expiration_date", "job_start_date",
               "permit_status_date", "filing_date", "dobrundate"}
DateTexts == {"", "not-a-date"}

WithDates(i) ==
  {[Record(i) EXCEPT ![f] = t] :
     f \in DateFields \cup {"updated_at"}, t \in DateTexts}
  \cup {[Record(i) EXCEPT !.updated_at = "2024-01-02"]}
WithFiling(i) ==
  {[Record(i) EXCEPT !.permit_number = "P1", !.filing_date = t] :
     t \in DateTexts \cup {"2024-01-02"}}
WithCoords(i) ==
  {[Record(i) EXCEPT !.gis_latitude = c[1], !.gis_longitude = c[2]] :
     c \in {<<"90", "-180">>, <<"-91", "-180">>, <<"90", "181">>,
            <<"90", NullText>>, <<"", "-180">>}}
WithBuilding(i) ==
  {[Record(i) EXCEPT !.bin = "B1", !.street_name = n] : n \in {"S1", "S2"}}
WithOwner(i) ==
  {[Record(i) EXCEPT !.owner_s_business_name = c[1],
                     !.owner_s_first_name = c[2]] :
     c \in {<<<<"A">>, NullName>>, <<<<" ", "A">>, <<"X">>>>,
            <<<<" ">>, <<"X">>>>, <<NullName, <<"X">>>>,
            <<NullName, <<"Y">>>>}}
WithPermittee(i) ==
  {[Record(i) EXCEPT !.permittee_s_business_name = b,
                     !.permittee_s_last_name = <<"X">>] :
     b \in {NullName, <<"A">>}}

Variants(i) ==
  WithDates(i) \cup WithFiling(i) \cup WithCoords(i) \cup WithBuilding(i)
  \cup WithOwner(i) \cup WithPermittee(i)

\* the records that come paired in a page of two
Few(i) ==
  WithBuilding(i)
  \cup {[Record(i) EXCEPT !.owner_s_business_name = <<"A">>],
        [Record(i) EXCEPT !.owner_s_business_name = <<" ", "A">>,
                          !.owner_s_first_name = <<"X">>],
        [Record(i) EXCEPT !.owner_s_first_name = <<"X">>],
        [Record(i) EXCEPT !.owner_s_first_name = <<"Y">>],
        [Record(i) EXCEPT !.permit_number = "P1",
                          !.filing_date = "not-a-date"]}

Pages ==
  {<<r>> : r \in Variants(1) \cup {Record(2)}}
  \cup {<<a, b>> : a \in Few(1), b \in Few(2)}
  \cup {<<Record(1), Record(1)>>}

\* the unspecified choice matters to pages of more than one record
Picks(rows) == IF Len(rows) = 1 THEN {"first"} ELSE {"first", "last"}
Latitudes == {90, 91}
Longitudes == {NullDouble, -180}
Geoms == {NullGeom, <<7, 7>>}

NextUpsert ==
  \/ \E rows \in Pages : \E pick \in Picks(rows) :
       CallUpsertDobPermits(rows, pick)
  \/ \E i \in {1, 2}, lat \in Latitudes, lon \in Longitudes, g \in Geoms :
       UpdatePermit(i, lat, lon, g)

SpecUpsert == Init /\ [][NextUpsert]_vars

\* a successful call of upsert_dob_permits is the step being taken
Upserted == lastCall'.op = "upsert" /\ ops' = ops + 1 /\ ~lastCall'.error
AfterUpsert == lastCall.op = "upsert" /\ ~lastCall.error

\* a text that is present, not empty, and no date
Malformed(t) == t # NullText /\ t # "" /\ t \notin DOMAIN DateOf
HasMalformedDate(rows) ==
  \E k \in 1..Len(rows), f \in DateFields \cup {"updated_at"} :
    Malformed(rows[k][f])

\* C12: a page holding a record with a malformed date or timestamp makes
\* upsert_dob_permits fail as a whole, and none of buildings, permit
\* details, entities and permits is changed.
C12_MalformedDateFailsPage ==
  [][(lastCall'.op = "upsert" /\ ops' = ops + 1
      /\ HasMalformedDate(lastCall'.rows))
     => (lastCall'.error /\ UNCHANGED tableVars)]_vars

\* a page whose date-like fields are all missing, empty or well-formed and
\* that is sound otherwise
DatesMissingEmptyOrGood(rows) ==
  /\ ~HasMalformedDate(rows)
  /\ \A k \in 1..Len(rows) :
       /\ rows[k].updated_at \in DOMAIN DateOf
       /\ ~CastDoubleRaises(rows[k].gis_latitude)
       /\ ~CastDoubleRaises(rows[k].gis_longitude)
  /\ \A j, k \in 1..Len(rows) : j # k => rows[j].id # rows[k].id

StoredAsNull(r, row, details) ==
  /\ r.issuance_date \in {NullText, ""} => row.permit_issuance_date = None
  /\ r.expiration_date \in {NullText, ""} => row.expiration_date = None
  /\ r.job_start_date \in {NullText, ""} => row.job_start_date = None
  /\ r.dobrundate \in {NullText, ""} => row.dobrundate = None
  /\ (r.filing_date \in {NullText, ""} /\ r.permit_number # NullText)
     => details[r.permit_number] = None

\* C13: a missing or empty date-like field (issuance, expiration, job start,
\* permit status, filing date, dobrundate) is stored as null and does not
\* make the page fail.
C13_EmptyDateStoredAsNull ==
  (lastCall.op = "upsert" /\ DatesMissingEmptyOrGood(lastCall.rows))
  => /\ ~lastCall.error
     /\ \A k \in 1..Len(lastCall.rows) :
          StoredAsNull(lastCall.rows[k], dob_permits[lastCall.rows[k].id],
                       dob_permit_details)

\* C14: applying the page that was just applied once more leaves buildings,
\* permit details, entities and permits as the first application left them.
C14_SamePageTwice ==
  [][(Upserted /\ AfterUpsert /\ lastCall'.rows = lastCall.rows
      /\ lastCall'.pick = lastCall.pick)
     => UNCHANGED tableVars]_vars

PageIds(rows) == {rows[k].id : k \in 1..Len(rows)}

\* C15: inserted is the number of page ids absent from the permit table
\* before the call, updated the number already present, their sum the page
\* size; applying the applied page again reports inserted = 0 and adds no
\* permit row.
C15_InsertedUpdatedCounts ==
  [][Upserted =>
       /\ lastCall'.inserted =
            Cardinality(PageIds(lastCall'.rows) \ DOMAIN dob_permits)
       /\ lastCall'.updated =
            Cardinality(PageIds(lastCall'.rows) \cap DOMAIN dob_permits)
       /\ lastCall'.inserted + lastCall'.updated = Len(lastCall'.rows)
       /\ (AfterUpsert /\ lastCall'.rows = lastCall.rows)
          => /\ lastCall'.inserted = 0
             /\ DOMAIN dob_permits' = DOMAIN dob_permits]_vars

C15_Witness ==
  /\ AfterUpsert /\ ops = 2
  /\ lastCall.inserted = 1 /\ lastCall.updated = 1

\* the rows of the entity table with role t and business name b
EntityRows(t, b) ==
  {r \in DOMAIN dob_entities : r.entity_type = t /\ r.business_name = b}

RECURSIVE CountRows(_)
CountRows(S) ==
  IF S = {} THEN 0
  ELSE LET r == CHOOSE x \in S : TRUE
       IN  dob_entities[r] + CountRows(S \ {r})

\* C16: the entity table holds at most one row per (role, business name)
\* with a non-null business name, and exactly one for every such pair that
\* the records of an applied page carry.
C16_OneRowPerBusiness ==
  /\ \A r \in DOMAIN dob_entities :
       r.business_name # NullName
       => CountRows(EntityRows(r.entity_type, r.business_name)) = 1
  /\ AfterUpsert =>
       \A c \in Candidates(lastCall.rows) :
         c.business_name # NullName
         => CountRows(EntityRows(c.entity_type, c.business_name)) = 1

C16_Witness ==
  /\ AfterUpsert /\ ops = 2 /\ Len(lastCall.rows) = 2
  /\ lastCall.updated = 1
  /\ \A k \in 1..2 :
       NullIf(Trim(lastCall.rows[k].owner_s_business_name), <<>>) = <<"A">>
  /\ lastCall.rows[1].owner_s_business_name
       # lastCall.rows[2].owner_s_business_name
  /\ CountRows(EntityRows("owner", <<"A">>)) = 1

\* occurrences of a candidate without business name in a page
NullBusinessOccurrences(rows) ==
  Cardinality(
    {k \in 1..Len(rows) :
       /\ ~NonBlank(rows[k].owner_s_business_name)
       /\ \/ NonBlank(rows[k].owner_s_first_name)
          \/ NonBlank(rows[k].owner_s_last_name)})
  + Cardinality(
    {k \in 1..Len(rows) :
       /\ ~NonBlank(rows[k].permittee_s_business_name)
       /\ \/ NonBlank(rows[k].permittee_s_first_name)
          \/ NonBlank(rows[k].permittee_s_last_name)})

NullBusinessRows(e) ==
  BagCardinality([r \in {x \in DOMAIN e : x.business_name = NullName}
                    |-> e[r]])

\* C17: every occurrence of a candidate without business name becomes an
\* entity row of its own, in one page as across pages.
C17_NullBusinessNeverMerged ==
  [][Upserted =>
       NullBusinessRows(dob_entities')
         = NullBusinessRows(dob_entities)
           + NullBusinessOccurrences(lastCall'.rows)]_vars

\* C18: the geometry of every permit row is the point (longitude, latitude)
\* when both are present with latitude in [-90,90] and longitude in
\* [-180,180], and null otherwise, whatever was written to the column.
C18_GeometryDerived ==
  \A i \in DOMAIN dob_permits :
    LET row == dob_permits[i] IN
    IF /\ row.gis_latitude # NullDouble /\ row.gis_longitude # NullDouble
       /\ -90 <= row.gis_latitude /\ row.gis_latitude <= 90
       /\ -180 <= row.gis_longitude /\ row.gis_longitude <= 180
    THEN row.geom = <<row.gis_longitude, row.gis_latitude>>
    ELSE row.geom = NullGeom

C18_Witness ==
  /\ lastCall.op = "update" /\ lastCall.geom = <<7, 7>>
  /\ dob_permits[lastCall.id].geom = <<-180, 90>>

\* ============================================================ tiles handler
MaxRequests == 2

\* the path segments of the model and what parseInt(segment, 10) makes of
\* them: leading digits are read, what follows them is ignored
NaN == -1000
Segments == {"functions", "v1", "tiles", "permits", "other",
             "0", "1", "17", "-1", "1abc", "abc"}
ParseInt ==
  [t \in Segments |->
     CASE t = "0" -> 0 [] t = "1" -> 1 [] t = "17" -> 17 [] t = "-1" -> -1
       [] t = "1abc" -> 1 [] OTHER -> NaN]

\* pathParts.indexOf('tiles'), counted from 1 (0 when absent)
IndexOf(path, t) ==
  IF \E k \in 1..Len(path) : path[k] = t
  THEN CHOOSE k \in 1..Len(path) :
         path[k] = t /\ \A j \in 1..(k - 1) : path[j] # t
  ELSE 0

\* /^\d{4}-\d{2}-\d{2}$/.test(dateStr)
DateRegex(d) == d \in {"2024-01-15", "2024-13-45", Today}
\* !isNaN(new Date(dateStr + 'T00:00:00Z').getTime())
ValidDate(d) == d \in {"2024-01-15", Today}

\* const dateStr = dateParam || defaultDate
DateStr(d) == IF d = NullText \/ d = "" THEN Today ELSE d

\* Path, coordinate and date validation: TRUE when the request is answered
\* 400
Rejected(path, d) ==
  LET t == IndexOf(path, "tiles") IN
  \/ t = 0
  \/ Len(path) < t + 4
  \/ path[t + 1] # "permits"
  \/ LET z == ParseInt[path[t + 2]]
         x == ParseInt[path[t + 3]]
         y == ParseInt[path[t + 4]]
     IN  \/ z = NaN \/ x = NaN \/ y = NaN
         \/ z < 0 \/ z > 16
         \/ x < 0 \/ x >= 2 ^ z \/ y < 0 \/ y >= 2 ^ z
  \/ ~DateRegex(DateStr(d))
  \/ ~ValidDate(DateStr(d))

KeyOf(path, d) ==
  LET t == IndexOf(path, "tiles") IN
  <<ParseInt[path[t + 2]], ParseInt[path[t + 3]], ParseInt[path[t + 4]],
    DateStr(d)>>

\* bytea to and from its hex text '\x..'
HexDigits == <<"0", "1", "2", "3", "4", "5", "6", "7", "8", "9",
               "a", "b", "c", "d", "e", "f">>
HexValue(c) == (CHOOSE k \in 1..16 : HexDigits[k] = c) - 1

RECURSIVE ByteaOut(_)
ByteaOut(bytes) ==
  IF bytes = <<>> THEN <<>>
  ELSE <<HexDigits[(Head(bytes) \div 16) + 1],
         HexDigits[(Head(bytes) % 16) + 1]>> \o ByteaOut(Tail(bytes))
\* the text PostgREST returns for a bytea value
ToHexText(bytes) == <<"\\", "x">> \o ByteaOut(bytes)

RECURSIVE HexPairs(_)
HexPairs(h) ==
  IF Len(h) < 2 THEN <<>>
  ELSE <<HexValue(h[1]) * 16 + HexValue(h[2])>>
       \o HexPairs(SubSeq(h, 3, Len(h)))
\* hexToArrayBuffer(hex)
HexToArrayBufferUnstripped(hex) == <<0>> \o HexPairs(SubSeq(hex, 3, Len(hex)))
HexToArrayBuffer(hex) ==
  IF Len(hex) >= 2 /\ SubSeq(hex, 1, 2) = <<"\\", "x">>
  THEN HexPairs(SubSeq(hex, 3, Len(hex)))
  ELSE HexPairs(hex)

\* the bytea value Postgres reads from the hex text '\x..' of a column value
ByteaIn(text) == HexPairs(SubSeq(text, 3, Len(text)))

\* !data || data === '\\x' || data.length === 0
IsEmptyTileNever(d) == FALSE
IsEmptyTile(d) == d = NullName \/ d = <<"\\", "x">> \/ Len(d) = 0

\* ---- generateETag: 32-bit arithmetic on numbers held as <<high, low>>
\* with value high * 65536 + low and low in 0..65535
Half == 65536
\* let hash = 2166136261  (0x811c9dc5)
FnvOffsetHigh == 33052
FnvOffsetLow == 40389

\* ToInt32 of a number, as an unsigned 32-bit word
ToWord(n) == <<n[1] % Half, n[2]>>
\* the signed value of a 32-bit word
Signed(w) == IF w[1] >= 32768 THEN <<w[1] - Half, w[2]>> ELSE w

\* bit i of a byte, and the xor of two bytes bit by bit
Bit(n, i) == (n \div (2 ^ i)) % 2
XorBit(a, b, i) == ((Bit(a, i) + Bit(b, i)) % 2) * (2 ^ i)
Xor(a, b) ==
  XorBit(a, b, 0) + XorBit(a, b, 1) + XorBit(a, b, 2) + XorBit(a, b, 3)
  + XorBit(a, b, 4) + XorBit(a, b, 5) + XorBit(a, b, 6) + XorBit(a, b, 7)
\* hash ^= bytes[i]
XorByte(w, b) == <<w[1], (w[2] \div 256) * 256 + Xor(w[2] % 256, b)>>

\* hash << k, for k below 16 and for k = 24
Shl(w, k) ==
  LET low == w[2] * (2 ^ k) IN
  <<(w[1] * (2 ^ k) + (low \div Half)) % Half, low % Half>>
Shl24(w) == <<(w[2] % 256) * 256, 0>>

\* the sum of six numbers, as a number
SumOf(ts) ==
  LET low == ts[1][2] + ts[2][2] + ts[3][2] + ts[4][2] + ts[5][2] + ts[6][2]
  IN  <<ts[1][1] + ts[2][1] + ts[3][1] + ts[4][1] + ts[5][1] + ts[6][1]
          + (low \div Half),
        low % Half>>

\* hash += (hash << 1) + (hash << 4) + (hash << 7) + (hash << 8)
\*         + (hash << 24), for the word w that hash holds after the xor
AddShifts(w) ==
  CHOOSE r \in {SumOf(ts) :
                 ts \in {<<Signed(w), Signed(Shl(w, 1)), Signed(Shl(w, 4)),
                           Signed(Shl(w, 7)), Signed(Shl(w, 8)),
                           Signed(Shl24(w))>>}} :
    TRUE
\* one round of the loop of generateETag (the words are bound by sets so
\* that each is computed once)
HashStep(h, b) ==
  CHOOSE r \in {AddShifts(w) :
                 w \in {XorByte(v, b) : v \in {ToWord(n) : n \in {h}}}} :
    TRUE

RECURSIVE HashBytes(_, _)
HashBytes(h, bytes) ==
  IF bytes = <<>> THEN h
  ELSE HashBytes(HashStep(h, Head(bytes)), Tail(bytes))

\* Number.prototype.toString(16)
RECURSIVE HexOf(_)
HexOf(n) ==
  IF n < 16 THEN <<HexDigits[n + 1]>>
  ELSE HexOf(n \div 16) \o <<HexDigits[(n % 16) + 1]>>
Pad4(t) == SubSeq(<<"0", "0", "0">>, 1, 4 - Len(t)) \o t
Negate(n) == IF n[2] = 0 THEN <<-n[1], 0>> ELSE <<-n[1] - 1, Half - n[2]>>
HexNat(n) ==
  IF n[1] = 0 THEN HexOf(n[2]) ELSE HexOf(n[1]) \o Pad4(HexOf(n[2]))
ToString16(n) == IF n[1] < 0 THEN <<"-">> \o HexNat(Negate(n)) ELSE HexNat(n)

\* generateETag(data)
GenerateETagConstant(bytes) == ToString16(<<FnvOffsetHigh, FnvOffsetLow>>)
GenerateETag(bytes) ==
  CHOOSE t \in {ToString16(n) :
                 n \in {HashBytes(<<FnvOffsetHigh, FnvOffsetLow>>, bytes)}} :
    TRUE

\* const etagHeader = `"${etag}"`
EtagHeader(etag) == <<"\"">> \o etag \o <<"\"">>

\* ifNoneMatch === etagHeader (null when the request has no If-None-Match)
NotModifiedUnquoted(ifNoneMatch, etagHeader) ==
  <<"\"">> \o ifNoneMatch \o <<"\"">> = etagHeader
NotModified(ifNoneMatch, etagHeader) == ifNoneMatch = etagHeader

\* 'Cache-Control' of the tile responses
CacheControl ==
  "public, max-age=3600, s-maxage=86400, stale-while-revalidate=604800"

\* the responses of the handler
BadRequest ==
  [status |-> 400, body |-> NullBytes, etag |-> NullName,
   cacheControl |-> NullText]
ServerError ==
  [status |-> 500, body |-> NullBytes, etag |-> NullName,
   cacheControl |-> NullText]
EmptyTile ==
  [status |-> 200, body |-> <<>>, etag |-> NullName,
   cacheControl |-> CacheControl]
NotModifiedResponse(etagHeader) ==
  [status |-> 304, body |-> NullBytes, etag |-> etagHeader,
   cacheControl |-> CacheControl]
TileResponse(bytes, etagHeader) ==
  [status |-> 200, body |-> bytes, etag |-> etagHeader,
   cacheControl |-> CacheControl]

\* the rows of mvt_cache with primary key k
RowsOf(cache, k) == {r \in cache : r.key = k}
\* insert ... on conflict (primary key) do update, as .upsert() sends it
CacheInsert(cache, row) == cache \cup {row}
CacheUpsert(cache, row) == (cache \ RowsOf(cache, row.key)) \cup {row}

\* the request arrives; path, coordinates and date are validated
TileRequest(p, path, d, inm) ==
  /\ tpc[p] = "idle"
  /\ served < MaxRequests
  /\ served' = served + 1
  /\ lookups' = [lookups EXCEPT ![p] = 0]
  /\ rpcCalls' = [rpcCalls EXCEPT ![p] = 0]
  /\ cacheWrites' = [cacheWrites EXCEPT ![p] = 0]
  /\ writeFate' = [writeFate EXCEPT ![p] = "none"]
  /\ data' = [data EXCEPT ![p] = NullName]
  /\ tileData' = [tileData EXCEPT ![p] = NullBytes]
  /\ IF Rejected(path, d)
     THEN /\ req' = [req EXCEPT ![p] =
                       [n |-> served', path |-> path, date |-> d,
                        ifNoneMatch |-> inm, key |-> NoKey,
                        atArrival |-> NullBytes]]
          /\ tresp' = [tresp EXCEPT ![p] = BadRequest]
          /\ tpc' = [tpc EXCEPT ![p] = "done"]
     ELSE /\ req' = [req EXCEPT ![p] =
                       [n |-> served', path |-> path, date |-> d,
                        ifNoneMatch |-> inm, key |-> KeyOf(path, d),
                        atArrival |-> tiles[KeyOf(path, d)]]]
          /\ tresp' = [tresp EXCEPT ![p] = NoTileResp]
          /\ tpc' = [tpc EXCEPT ![p] = "lookup"]
  /\ UNCHANGED <<mvt_cache, tiles, pending, lastWritten, generated, stale>>
  /\ UNCHANGED <<syncVars, pageVars>>

\* select mvt, updated_at from mvt_cache where key ... .single(): an error
\* (no row, several rows, or a failed query) or the row
CacheLookupThrows(p, ok) ==
  /\ tpc[p] = "lookup"
  /\ lookups' = [lookups EXCEPT ![p] = @ + 1]
  /\ LET rows == RowsOf(mvt_cache, req[p].key) IN
     IF ok /\ Cardinality(rows) = 1
        /\ ToHexText((CHOOSE r \in rows : TRUE).mvt) # <<>>
     THEN /\ tileData' =
               [tileData EXCEPT ![p] =
                  HexToArrayBuffer(ToHexText((CHOOSE r \in rows : TRUE).mvt))]
          /\ tpc' = [tpc EXCEPT ![p] = "respond"]
          /\ tresp' = tresp
     ELSE /\ tileData' = tileData
          /\ tpc' = [tpc EXCEPT ![p] = IF ok THEN "generate" ELSE "done"]
          /\ tresp' = [tresp EXCEPT ![p] = IF ok THEN @ ELSE ServerError]
  /\ UNCHANGED <<mvt_cache, tiles, req, data, pending, rpcCalls,
                 cacheWrites, served, writeFate, lastWritten, generated,
                 stale>>
  /\ UNCHANGED <<syncVars, pageVars>>
CacheLookup(p, ok) ==
  /\ tpc[p] = "lookup"
  /\ lookups' = [lookups EXCEPT ![p] = @ + 1]
  /\ LET rows == RowsOf(mvt_cache, req[p].key) IN
     IF ok /\ Cardinality(rows) = 1
        /\ ToHexText((CHOOSE r \in rows : TRUE).mvt) # <<>>
     THEN /\ tileData' =
               [tileData EXCEPT ![p] =
                  HexToArrayBuffer(ToHexText((CHOOSE r \in rows : TRUE).mvt))]
          /\ tpc' = [tpc EXCEPT ![p] = "respond"]
     ELSE /\ tileData' = tileData
          /\ tpc' = [tpc EXCEPT ![p] = "generate"]
  /\ UNCHANGED <<mvt_cache, tiles, req, data, pending, tresp, rpcCalls,
                 cacheWrites, served, writeFate, lastWritten, generated,
                 stale>>
  /\ UNCHANGED <<syncVars, pageVars>>

\* Cache miss: rpc dob_permit_tiles; an empty tile is answered at once, a
\* tile with bytes is handed to the cache upsert, which is not awaited
Generate(p, ok) ==
  /\ tpc[p] = "generate"
  /\ rpcCalls' = [rpcCalls EXCEPT ![p] = @ + 1]
  /\ IF ~ok
     THEN /\ tresp' = [tresp EXCEPT ![p] = ServerError]
          /\ tpc' = [tpc EXCEPT ![p] = "done"]
          /\ UNCHANGED <<data, tileData, pending, cacheWrites, writeFate,
                         generated>>
     ELSE /\ data' = [data EXCEPT ![p] = ToHexText(tiles[req[p].key])]
          /\ generated' = generated \cup {req[p].key}
          /\ IF IsEmptyTile(data'[p])
             THEN /\ tresp' = [tresp EXCEPT ![p] = EmptyTile]
                  /\ tpc' = [tpc EXCEPT ![p] = "done"]
                  /\ UNCHANGED <<tileData, pending, cacheWrites, writeFate>>
             ELSE /\ tileData' =
                       [tileData EXCEPT ![p] = HexToArrayBuffer(data'[p])]
                  /\ pending' =
                       pending \cup {[n |-> req[p].n, key |-> req[p].key,
                                      mvt |-> data'[p],
                                      updated_at |-> clock]}
                  /\ cacheWrites' = [cacheWrites EXCEPT ![p] = @ + 1]
                  /\ writeFate' = [writeFate EXCEPT ![p] = "pending"]
                  /\ tresp' = tresp
                  /\ tpc' = [tpc EXCEPT ![p] = "respond"]
  /\ UNCHANGED <<mvt_cache, tiles, req, lookups, served, lastWritten, stale>>
  /\ UNCHANGED <<syncVars, pageVars>>

\* the answer for the tile in tileData: empty, not modified, or the bytes
RespondAwaitingWrite(p) ==
  /\ tpc[p] = "respond"
  /\ writeFate[p] # "pending"
  /\ tresp' = [tresp EXCEPT ![p] =
       IF writeFate[p] = "failed" THEN ServerError
       ELSE TileResponse(tileData[p], EtagHeader(GenerateETag(tileData[p])))]
  /\ tpc' = [tpc EXCEPT ![p] = "done"]
  /\ UNCHANGED <<mvt_cache, tiles, req, data, tileData, pending, lookups,
                 rpcCalls, cacheWrites, served, writeFate, lastWritten,
                 generated, stale>>
  /\ UNCHANGED <<syncVars, pageVars>>
Respond(p) ==
  /\ tpc[p] = "respond"
  /\ tresp' = [tresp EXCEPT ![p] =
       IF tileData[p] = NullBytes \/ Len(tileData[p]) = 0
       THEN EmptyTile
       ELSE IF NotModified(req[p].ifNoneMatch,
                           EtagHeader(GenerateETag(tileData[p])))
            THEN NotModifiedResponse(EtagHeader(GenerateETag(tileData[p])))
            ELSE TileResponse(tileData[p],
                              EtagHeader(GenerateETag(tileData[p])))]
  /\ tpc' = [tpc EXCEPT ![p] = "done"]
  /\ UNCHANGED <<mvt_cache, tiles, req, data, tileData, pending, lookups,
                 rpcCalls, cacheWrites, served, writeFate, lastWritten,
                 generated, stale>>
  /\ UNCHANGED <<syncVars, pageVars>>

\* the response has been delivered; the next request can be served
TileReturn(p) ==
  /\ tpc[p] = "done"
  /\ tpc' = [tpc EXCEPT ![p] = "idle"]
  /\ req' = [req EXCEPT ![p] = NoReq]
  /\ data' = [data EXCEPT ![p] = NullName]
  /\ tileData' = [tileData EXCEPT ![p] = NullBytes]
  /\ tresp' = [tresp EXCEPT ![p] = NoTileResp]
  /\ lookups' = [lookups EXCEPT ![p] = 0]
  /\ rpcCalls' = [rpcCalls EXCEPT ![p] = 0]
  /\ cacheWrites' = [cacheWrites EXCEPT ![p] = 0]
  /\ writeFate' = [writeFate EXCEPT ![p] = "none"]
  /\ UNCHANGED <<mvt_cache, tiles, pending, served, lastWritten, generated,
                 stale>>
  /\ UNCHANGED <<syncVars, pageVars>>

\* an upsert of mvt_cache that was issued settles: the row is written, or
\* the error is logged
CacheWriteSettles(ok) ==
  /\ \E w \in pending :
       /\ pending' = pending \ {w}
       /\ mvt_cache' =
            IF ok
            THEN CacheUpsert(mvt_cache,
                             [key |-> w.key, mvt |-> ByteaIn(w.mvt),
                              updated_at |-> w.updated_at])
            ELSE mvt_cache
       /\ lastWritten' =
            IF ok THEN [lastWritten EXCEPT ![w.key] = ByteaIn(w.mvt)]
            ELSE lastWritten
       /\ writeFate' =
            [p \in Handlers |->
               IF req[p].n = w.n
               THEN (IF ok THEN "written" ELSE "failed")
               ELSE writeFate[p]]
  /\ UNCHANGED <<tiles, tpc, req, data, tileData, tresp, lookups, rpcCalls,
                 cacheWrites, served, generated, stale>>
  /\ UNCHANGED <<syncVars, pageVars>>

\* permits that fall into tile k are stored or changed: dob_permit_tiles
\* now returns other bytes for it
TileVersions == <<<<>>, <<26>>, <<26, 3>>>>
VersionOf(bytes) == CHOOSE v \in 1..Len(TileVersions) : TileVersions[v] = bytes
PermitsChangeInvalidates(k) ==
  /\ VersionOf(tiles[k]) < Len(TileVersions)
  /\ tiles' = [tiles EXCEPT ![k] = TileVersions[VersionOf(tiles[k]) + 1]]
  /\ stale' = IF k \in generated THEN stale \cup {k} ELSE stale
  /\ mvt_cache' = mvt_cache \ RowsOf(mvt_cache, k)
  /\ UNCHANGED <<tpc, req, data, tileData, pending, tresp,
                 lookups, rpcCalls, cacheWrites, served, writeFate,
                 lastWritten, generated>>
  /\ UNCHANGED <<syncVars, pageVars>>
PermitsChange(k) ==
  /\ VersionOf(tiles[k]) < Len(TileVersions)
  /\ tiles' = [tiles EXCEPT ![k] = TileVersions[VersionOf(tiles[k]) + 1]]
  /\ stale' = IF k \in generated THEN stale \cup {k} ELSE stale
  /\ UNCHANGED <<mvt_cache, tpc, req, data, tileData, pending, tresp,
                 lookups, rpcCalls, cacheWrites, served, writeFate,
                 lastWritten, generated>>
  /\ UNCHANGED <<syncVars, pageVars>>

Paths ==
  {<<"tiles", "permits", z, "0", "0">> :
     z \in {"0", "1", "17", "-1", "1abc", "abc"}}
  \cup {<<"functions", "v1", "tiles", "permits", "1", "0", "0">>,
        <<"tiles", "permits", "0", "1", "0">>,
        <<"tiles", "permits", "0", "0", "1">>,
        <<"tiles", "permits", "0", "0">>,
        <<"tiles", "other", "0", "0", "0">>,
        <<"v1", "permits", "0", "0", "0">>}
DateParams == {NullText, "", "2024-01-15", "2024-13-45", "20240115"}
\* If-None-Match of the request: absent, the quoted fingerprint of a
\* version of the tile, or a fingerprint without its quotes
IfNoneMatchValues ==
  {NullName, GenerateETag(TileVersions[2]),
   EtagHeader(GenerateETag(TileVersions[2])),
   EtagHeader(GenerateETag(TileVersions[3]))}
\* the tiles whose permits change
ChangingKeys == {k \in Keys : k[4] = "2024-01-15"}

\* one invocation at a time
NextTiles ==
  \/ \E path \in Paths, d \in DateParams, inm \in IfNoneMatchValues :
       TileRequest(1, path, d, inm)
  \/ \E ok \in BOOLEAN : CacheLookup(1, ok)
  \/ \E ok \in BOOLEAN : Generate(1, ok)
  \/ Respond(1)
  \/ TileReturn(1)
  \/ \E ok \in BOOLEAN : CacheWriteSettles(ok)
  \/ \E k \in ChangingKeys : PermitsChange(k)

SpecTiles == Init /\ [][NextTiles]_vars

\* a path that is /tiles/permits/{z}/{x}/{y} with integers z, x, y,
\* possibly behind a prefix
Integers10 == {"0", "1", "17", "-1"}
WellFormedPath(path) ==
  LET t == IndexOf(path, "tiles") IN
  /\ t # 0
  /\ Len(path) = t + 4
  /\ path[t + 1] = "permits"
  /\ \A k \in (t + 2)..(t + 4) : path[k] \in Integers10

InRange(path) ==
  LET t == IndexOf(path, "tiles")
      z == ParseInt[path[t + 2]]
  IN  /\ 0 <= z /\ z <= 16
      /\ \A k \in (t + 3)..(t + 4) :
           0 <= ParseInt[path[k]] /\ ParseInt[path[k]] < 2 ^ z

WellFormedDate(d) == d \in {NullText, "", "2024-01-15"}

\* C19: a tile request with zoom outside [0,16], x or y outside
\* [0, 2^zoom), or a malformed path or date is answered 400, with no cache
\* lookup, no generator call and no cache write.
C19_InvalidRequestRejected ==
  \A p \in Handlers :
    (tpc[p] # "idle"
     /\ (~WellFormedPath(req[p].path) \/ ~InRange(req[p].path)
         \/ ~WellFormedDate(req[p].date)))
    => /\ tpc[p] = "done" /\ tresp[p].status = 400
       /\ lookups[p] = 0 /\ rpcCalls[p] = 0 /\ cacheWrites[p] = 0

C21_CacheWriteNeverFailsRequest ==
  \A p \in Handlers :
    /\ (tpc[p] = "respond" /\ cacheWrites[p] = 1) => ENABLED Respond(p)
    /\ (tpc[p] = "done" /\ cacheWrites[p] = 1)
       => /\ writeFate[p] \in {"pending", "written", "failed"}
          /\ tresp[p].status \in {200, 304}
          /\ tresp[p].status = 200 => tresp[p].body = ByteaIn(data[p])
          /\ tresp[p].status = 304 => tresp[p].body = NullBytes

C21_Witness ==
  /\ tpc[1] = "done" /\ cacheWrites[1] = 1 /\ writeFate[1] = "failed"
  /\ tresp[1].status = 200 /\ tresp[1].body = <<26>>

\* C22: for a tile with bytes, cached or freshly generated, the answer is
\* 304 without a body exactly when If-None-Match equals the quoted
\* fingerprint of the bytes about to be served; otherwise it is 200 with
\* these bytes.
C22_NotModifiedIffFingerprintMatches ==
  \A p \in Handlers :
    (tpc[p] = "done" /\ tileData[p] # NullBytes /\ tileData[p] # <<>>)
    => IF req[p].ifNoneMatch
            = <<"\"">> \o GenerateETag(tileData[p]) \o <<"\"">>
       THEN tresp[p].status = 304 /\ tresp[p].body = NullBytes
       ELSE tresp[p].status = 200 /\ tresp[p].body = tileData[p]

\* a cached tile is answered 304 to its fingerprint "-e0f379f3"
C22_Witness ==
  /\ tpc[1] = "done" /\ lookups[1] = 1 /\ rpcCalls[1] = 0
  /\ tileData[1] = <<26>>
  /\ req[1].ifNoneMatch
       = <<"\"", "-", "e", "0", "f", "3", "7", "9", "f", "3", "\"">>
  /\ tresp[1].status = 304 /\ tresp[1].body = NullBytes

\* the request carries the quoted fingerprint of a version of its tile that
\* is older than the version the store held when the request arrived
StaleFingerprint(p) ==
  /\ req[p].atArrival # NullBytes
  /\ \E v \in 2..Len(TileVersions) :
       /\ v < VersionOf(req[p].atArrival)
       /\ req[p].ifNoneMatch
            = <<"\"">> \o GenerateETag(TileVersions[v]) \o <<"\"">>

PairPaths == {<<"tiles", "permits", "0", "0", "0">>,
              <<"tiles", "permits", "17", "0", "0">>}
PairKey == <<0, 0, 0, "2024-01-15">>
PairIfNoneMatch == {NullName, EtagHeader(GenerateETag(TileVersions[2]))}

HandlerStep(p) ==
  \/ \E ok \in BOOLEAN : CacheLookup(p, ok)
  \/ \E ok \in BOOLEAN : Generate(p, ok)
  \/ Respond(p)

NextPair ==
  \/ \E p \in Handlers, path \in PairPaths, inm \in PairIfNoneMatch :
       TileRequest(p, path, "2024-01-15", inm)
  \/ \E p \in Handlers, ok \in BOOLEAN : CacheLookup(p, ok)
  \/ \E p \in Handlers, ok \in BOOLEAN : Generate(p, ok)
  \/ \E p \in Handlers : Respond(p)
  \/ \E p \in Handlers : TileReturn(p)
  \/ \E ok \in BOOLEAN : CacheWriteSettles(ok)
  \/ PermitsChange(PairKey)

SpecPair == Init /\ [][NextPair]_vars /\ WF_vars(HandlerStep(1))

\* both invocations are serving a request for key k and both missed
BothMissed(k) ==
  \A p \in Handlers :
    /\ req[p].key = k
    /\ lookups[p] = 1
    /\ tpc[p] \in {"generate", "respond", "done"}
    /\ tpc[p] = "generate" \/ rpcCalls[p] = 1

OneEntryLastWriteWins ==
  /\ \A k \in Keys :
       /\ Cardinality(RowsOf(mvt_cache, k)) <= 1
       /\ lastWritten[k] # NullBytes
          => {r.mvt : r \in RowsOf(mvt_cache, k)} = {lastWritten[k]}
       /\ lastWritten[k] = NullBytes => RowsOf(mvt_cache, k) = {}
  /\ \A p \in Handlers :
       (BothMissed(req[p].key) /\ tpc[p] = "done" /\ data[p] # NullName)
       => tresp[p].status \in {200, 304}

\* C25: two concurrent requests that miss on the same key may both generate
\* and both write; under every interleaving mvt_cache holds at most one row
\* for the key, with the bytes of the last write applied, a request whose
\* generator answered is answered 200 or 304, and a request is answered
\* wherever the other one stands or stops.
C25_ConcurrentMisses ==
  /\ []OneEntryLastWriteWins
  /\ (tpc[1] \in {"lookup", "generate", "respond"}) ~> (tpc[1] = "done")

\* both requests missed, generated different bytes and wrote; the write
\* applied last carried the older bytes
C25_Witness ==
  /\ BothMissed(PairKey)
  /\ \A p \in Handlers :
       tpc[p] = "done" /\ cacheWrites[p] = 1 /\ writeFate[p] = "written"
       /\ tresp[p].status = 200
  /\ tresp[1].body = <<26>> /\ tresp[2].body = <<26, 3>>
  /\ {<<r.key, r.mvt>> : r \in mvt_cache} = {<<PairKey, <<26>>>>}

\* C26: every 200 answer to a tile request, the one for an empty tile
\* included, carries the Cache-Control directive and an ETag header.
C26_CacheControlAndETag ==
  \A p \in Handlers :
    (tpc[p] = "done" /\ tresp[p].status = 200)
    => tresp[p].cacheControl = CacheControl /\ tresp[p].etag # NullName

\* ------------------------------------------------ claims on the sync state
\* C27: a run that processes zero records leaves
\* dataset_sync_state.last_synced_updated_at as it was.
C27_NoDataNoAdvance ==
  (pc = "done" /\ totalProcessed = 0) => stateWrites = 0

\* C28: a value of dataset_sync_state.last_synced_updated_at is the
\* updated_at of a record that was applied to the store, and is not greater
\* than the greatest updated_at of the stored permits.
C28_WatermarkIsAppliedTimestamp ==
  syncState # None
  => syncState \in applied /\ syncState <= CurrentDobWatermark(store)

\* ------------------------------------------------------------ termination
\* The runtime runs the handler to its response: every step of the handler
\* that can be taken is taken (weak fairness), and the function is not
\* killed.  The upstream changes between runs only.  LiveRuns bounds the
\* number of runs that are followed.
SyncStep ==
  \/ \E o \in {"ok", "notok", "throw"} : Preflight(o)
  \/ \E o \in {"ok", "transient", "client", "throw"} : FetchAttempt(o)
  \/ UpsertFails
  \/ ApplyPage
  \/ \E ok \in BOOLEAN : Finish(ok)

LiveRuns == 1
StartLiveRun(m, s, u, rpcOk) == runs < LiveRuns /\ StartRun(m, s, u, rpcOk)

NextLive ==
  \/ \E i \in Ids : UpstreamPut(i)
  \/ Tick
  \/ \E m \in Modes, s \in SinceVals, u \in UntilVals, ok \in BOOLEAN :
       StartLiveRun(m, s, u, ok)
  \/ \E o \in {"ok", "notok", "throw"} : Preflight(o)
  \/ \E o \in {"ok", "transient", "client", "throw"} : FetchAttempt(o)
  \/ UpsertFails
  \/ ApplyPage
  \/ \E ok \in BOOLEAN : Finish(ok)
  \/ Return

SpecLive == Init /\ [][NextLive]_vars /\ WF_vars(SyncStep)

\* a page with fewer records than PAGE_SIZE, or none, is the last one
ShortPageEndsRun ==
  /\ [][(pc = "apply" /\ pc' # "apply" /\ Len(records) < PAGE_SIZE)
        => pc' \in {"finish", "done"}]_vars
  /\ [][(pc = "fetch" /\ pc' # "fetch" /\ lastFetch' = "ok"
         /\ records' = <<>>)
        => pc' = "finish"]_vars
  /\ [][pc = "finish" => pc' \in {"finish", "done"}]_vars

\* C29: every run ends with a success or an error response; a page with
\* fewer records than PAGE_SIZE, or none, ends the run with no further page
\* request; at most 3 fetch attempts are made for a page.
C29_RunTerminates ==
  /\ Running ~> (pc = "done" /\ resp \in {OkResp, ErrResp})
  /\ ShortPageEndsRun
  /\ [](attempts <= InitialRetries)

C29_Witness ==
  /\ pc = "done" /\ resp = OkResp
  /\ page = 1 /\ totalProcessed = PAGE_SIZE /\ records = <<>>
  /\ attempts = InitialRetries

\* ------------------------------------------------------ preflight no-op
\* lastSyncedUpdatedAt of the success response: the early return of the
\* preflight gives watermark, the response after the loop maxUpdatedAt
LastSyncedUpdatedAt == IF lastFetch = "none" THEN watermark ELSE maxUpdatedAt

\* the run is incremental without since/until, its preflight request was
\* answered, and the upstream holds no record newer than the value stored
\* in dataset_sync_state (which the run has not written)
NothingNewerThanStored ==
  /\ mode = "incremental" /\ NoRange
  /\ probe = "ok"
  /\ stateWrites = 0
  /\ Matching(upstream, StoredWatermark, None) = {}

\* C30: when an incremental run without since/until finds no upstream
\* record newer than the stored watermark, it answers success with
\* totalProcessed = 0 and lastSyncedUpdatedAt = the stored watermark, with
\* no page request, no upsert call and no sync-state write.
C30_PreflightNoOp ==
  (pc \in {"fetch", "apply", "finish", "done"} /\ NothingNewerThanStored)
  => /\ pc = "done" /\ resp = OkResp
     /\ totalProcessed = 0
     /\ LastSyncedUpdatedAt = StoredWatermark
     /\ attempts = 0 /\ lastFetch = "none" /\ records = <<>>


\* --------------------------------------------- the pages of one sync run

\* The entries of trail alternate between a fetched page and the upsert call
\* of that page, and the pages are numbered 0, 1, 2, ... in that order.
TrailAlternates ==
  \A k \in 1..Len(trail) :
    /\ trail[k].op = (IF k % 2 = 1 THEN "fetch" ELSE "upsert")
    /\ trail[k].page = (k - 1) \div 2

\* A request for page N (N > 0) is sent only when the upsert of every page
\* before N has been called and has answered without error.
FetchAfterUpsertReturned ==
  [][attempts' > attempts =>
       /\ Len(trail) = 2 * page
       /\ \A k \in 1..Len(trail) : trail[k].ok]_vars

OneCallPerPage ==
  \A k \in 1..Len(trail) :
    /\ trail[k].op = "upsert" =>
         /\ k > 1
         /\ trail[k - 1].op = "fetch"
         /\ trail[k].rows = trail[k - 1].rows
         /\ trail[k].rows # <<>>
    /\ (trail[k].op = "fetch" /\ trail[k].rows # <<>>) =>
         \/ k < Len(trail) /\ trail[k + 1].op = "upsert"
         \/ k = Len(trail) /\ (pc = "apply" \/ resp = NoResp)
    /\ (trail[k].op = "fetch" /\ trail[k].rows = <<>>) => k = Len(trail)

\* The call that answers without error stores exactly the rows of the page.
PageStoredWhole ==
  [][(Len(trail') = Len(trail) + 1 /\ trail'[Len(trail')].op = "upsert"
        /\ trail'[Len(trail')].ok) =>
       \A i \in Ids :
         /\ (\A k \in 1..Len(records) : records[k].id # i) =>
              store'[i] = store[i]
         /\ \A k \in 1..Len(records) :
              records[k].id = i => store'[i] = records[k].updated_at]_vars

\* C32: every non-empty page fetched in a run is submitted to the store by
\* exactly one upsert_dob_permits call carrying exactly that page's records;
\* no page is split, applied twice or skipped, and an empty page causes no
\* upsert call.
C32_OneUpsertPerPage == []OneCallPerPage /\ PageStoredWhole

\* a full page was applied, the next page came back empty, the run ended
C32_Witness ==
  /\ pc = "done" /\ resp = OkResp
  /\ Len(trail) = 3
  /\ Len(trail[2].rows) = PAGE_SIZE /\ trail[2].ok
  /\ trail[3].rows = <<>>

\* The lower bound of a page request is the rolling watermark left by the
\* page before it; the first request uses the lower bound of the run.
LowerBoundIsRollingWatermark ==
  \A k \in 1..Len(trail) :
    trail[k].op = "fetch" =>
      trail[k].lower =
        IF k = 1 THEN startLB
        ELSE Max({trail[k - 2].lower}
                 \cup {trail[k - 1].rows[j].updated_at :
                         j \in 1..Len(trail[k - 1].rows)})

\* newestSeen never decreases during a run, and applying a page sets it to
\* the maximum of its value and the updated_at values of the page.
RollingWatermarkAdvances ==
  [][/\ (Running /\ pc' # "idle") => newestSeen' >= newestSeen
     /\ (pc = "apply" /\ store' # store) =>
          newestSeen' = Max({newestSeen}
                            \cup {records[j].updated_at :
                                    j \in 1..Len(records)})]_vars

\* C33: within a run the rolling watermark (newestSeen) is non-decreasing,
\* after each applied page it equals the maximum of its previous value and
\* the max updated_at the store reports for the page, and the lower bound of
\* every page request is the rolling watermark in effect after the previous
\* page.
C33_RollingWatermark ==
  []LowerBoundIsRollingWatermark /\ RollingWatermarkAdvances

\* a page with two different timestamps was applied and the next request
\* used the later one as its lower bound
C33_Witness ==
  /\ Len(trail) = 3
  /\ trail[2].ok
  /\ trail[2].rows[1].updated_at < trail[2].rows[2].updated_at
  /\ trail[3].lower = trail[2].rows[2].updated_at
  /\ trail[3].lower > trail[1].lower


\* ------------------------------------------- the lifetime of cache entries
\* The clock counts days here.  A tile is requested, cached, left alone for
\* some days and swept, while pages are applied to the permit tables.
MaxDay == 9

\* interval '7 days'
SevenDays == 7

\* where updated_at < now() - interval '7 days'
ExpiredAtSevenDays(at, now) == at <= now - SevenDays
Expired(at, now) == at < now - SevenDays

\* clean_mvt_cache(), called by cron or by hand
CleanMvtCache ==
  /\ mvt_cache' = {r \in mvt_cache : ~Expired(r.updated_at, clock)}
  /\ UNCHANGED <<tiles, tpc, req, data, tileData, pending, tresp, lookups,
                 rpcCalls, cacheWrites, served, writeFate, lastWritten,
                 generated, stale>>
  /\ UNCHANGED <<syncVars, pageVars>>

\* d days go by
TimePasses(d) ==
  /\ clock + d <= MaxDay
  /\ clock' = clock + d
  /\ UNCHANGED <<upstream, store, syncState, pc, paramVars, loopVars,
                 retryVars, records, resp, stateWrites, histVars>>
  /\ UNCHANGED <<pageVars, tileVars, second>>

\* requests for tile 0/0/0 of two dates; pages of one record
NextCache ==
  \/ \E d \in {"2024-01-15", ""}, inm \in PairIfNoneMatch :
       TileRequest(1, <<"tiles", "permits", "0", "0", "0">>, d, inm)
  \/ \E ok \in BOOLEAN : CacheLookup(1, ok)
  \/ \E ok \in BOOLEAN : Generate(1, ok)
  \/ Respond(1)
  \/ TileReturn(1)
  \/ \E ok \in BOOLEAN : CacheWriteSettles(ok)
  \/ PermitsChange(PairKey)
  \/ \E i \in {1, 2} : CallUpsertDobPermits(<<Record(i)>>, "first")
  \/ \E d \in {3, 4} : TimePasses(d)
  \/ CleanMvtCache

SpecCache == Init /\ [][NextCache]_vars

\* the bytes cached for key k (no row: NullBytes)
CachedBytes(k) ==
  IF RowsOf(mvt_cache, k) = {} THEN NullBytes
  ELSE (CHOOSE r \in RowsOf(mvt_cache, k) : TRUE).mvt

\* A step that changes the permit tables, or what the generator returns,
\* leaves mvt_cache as it is.
WritesLeaveCacheAlone ==
  [][(tableVars' # tableVars \/ tiles' # tiles)
       => mvt_cache' = mvt_cache]_vars

\* A row of mvt_cache goes or changes only when a cache upsert settles or
\* when the row is more than seven days old.
OnlySweptOrOverwritten ==
  [][\A r \in mvt_cache :
       r \notin mvt_cache' =>
         \/ pending' # pending
         \/ clock - r.updated_at > SevenDays]_vars

\* A lookup that finds the row serves its bytes, whatever happened to the
\* permits since; the answer of a hit is made of the cached bytes.
CachedBytesServed ==
  /\ (tpc[1] = "lookup" /\ CachedBytes(req[1].key) \notin {NullBytes, <<>>})
       => ENABLED (/\ CacheLookup(1, TRUE)
                   /\ tpc'[1] = "respond"
                   /\ tileData'[1] = CachedBytes(req[1].key))
  /\ (tpc[1] = "respond" /\ rpcCalls[1] = 0) => ENABLED Respond(1)
  /\ (tpc[1] = "done" /\ lookups[1] = 1 /\ rpcCalls[1] = 0)
       => /\ tresp[1].status \in {200, 304}
          /\ tresp[1].etag = EtagHeader(GenerateETag(tileData[1]))
          /\ tresp[1].status = 200 => tresp[1].body = tileData[1]

\* C34: there is no write-triggered cache invalidation: applying pages
\* through the bulk upsert never creates, changes or removes a tile-cache
\* entry, and a key cached before a permit changed keeps being served with
\* its cached bytes until that entry is swept or overwritten.
C34_NoWriteTriggeredInvalidation ==
  /\ WritesLeaveCacheAlone
  /\ OnlySweptOrOverwritten
  /\ []CachedBytesServed

\* a page was applied and the permits of a cached key changed; the request
\* that followed was answered with the cached bytes, not the current ones
C34_Witness ==
  /\ tpc[1] = "done" /\ lookups[1] = 1 /\ rpcCalls[1] = 0
  /\ req[1].key \in stale
  /\ lastCall.op = "upsert" /\ ~lastCall.error
  /\ tresp[1].status = 200
  /\ tresp[1].body = CachedBytes(req[1].key)
  /\ tresp[1].body # tiles[req[1].key]


\* a row was written for key k and clean_mvt_cache has removed it
Swept(k) == lastWritten[k] # NullBytes /\ RowsOf(mvt_cache, k) = {}

\* A step that removes the row of a key removes the rows that are more than
\* seven days old, all of them, and no other row.
SweepRemovesExpired ==
  [][(\E r \in mvt_cache : RowsOf(mvt_cache', r.key) = {})
       => mvt_cache' = {r \in mvt_cache : clock - r.updated_at <= SevenDays}]_vars

\* The lookup of a swept key ends as a miss.
SweptKeyMisses ==
  [][(tpc[1] = "lookup" /\ tpc'[1] # "lookup" /\ Swept(req[1].key))
       => tpc'[1] = "generate"]_vars

\* The answer to a miss whose generator call answered: the empty tile, or
\* the generated bytes (200, or 304 on a matching If-None-Match), and a
\* cache upsert was issued for a tile with bytes.
AnsweredAsFirstMiss ==
  (tpc[1] = "done" /\ rpcCalls[1] = 1 /\ data[1] # NullName) =>
    IF ByteaIn(data[1]) = <<>>
    THEN tresp[1] = EmptyTile /\ cacheWrites[1] = 0
    ELSE /\ cacheWrites[1] = 1
         /\ \/ tresp[1] = TileResponse(ByteaIn(data[1]),
                             EtagHeader(GenerateETag(ByteaIn(data[1]))))
            \/ /\ req[1].ifNoneMatch
                    = EtagHeader(GenerateETag(ByteaIn(data[1])))
               /\ tresp[1] = NotModifiedResponse(req[1].ifNoneMatch)

\* C35: sweeping is advisory: clean_mvt_cache removes exactly the cache
\* entries whose write timestamp is more than 7 days old and leaves the
\* others, and a later request for a removed key regenerates the tile and is
\* answered successfully as on a first miss.
C35_SweepIsAdvisory ==
  /\ SweepRemovesExpired
  /\ SweptKeyMisses
  /\ []AnsweredAsFirstMiss

\* the row of a key was swept when it was eight days old; the key was
\* requested again, regenerated and answered 200 with the current bytes
C35_Witness ==
  /\ tpc[1] = "done" /\ rpcCalls[1] = 1
  /\ Swept(req[1].key)
  /\ tresp[1].status = 200 /\ tresp[1].body = tiles[req[1].key]
  /\ tresp[1].body # <<>>
  /\ clock = SevenDays + 2


\* ------------------------------------------------ errors of the cache lookup

\* A lookup that answers an error sends the handler to the generator, and no
\* lookup answers the request by itself.
FailedLookupIsMiss ==
  /\ tpc[1] = "lookup" =>
       /\ ENABLED (CacheLookup(1, FALSE) /\ tpc'[1] = "generate")
       /\ ~ENABLED (CacheLookup(1, FALSE) /\ tpc'[1] # "generate")
  /\ tpc[1] \in {"generate", "respond"} => tresp[1] = NoTileResp

\* A 500 answer means the generator was called and answered an error.
ServerErrorOnlyFromGenerator ==
  tresp[1].status = 500 =>
    /\ req[1].key # NoKey
    /\ lookups[1] = 1 /\ rpcCalls[1] = 1
    /\ data[1] = NullName

\* C39: a failed or errored cache lookup is handled as a miss: for a valid
\* request the handler then invokes the tile generator and answers from its
\* result, and only a generator failure produces a 500 server error.
C39_LookupErrorIsMiss ==
  FailedLookupIsMiss /\ ServerErrorOnlyFromGenerator /\ AnsweredAsFirstMiss

\* the key has a row, the lookup answered an error, the generator was called
\* and the request was answered with the generated bytes
C39_Witness ==
  /\ tpc[1] = "done" /\ rpcCalls[1] = 1
  /\ CachedBytes(req[1].key) # NullBytes
  /\ writeFate[1] = "pending"
  /\ tresp[1].status = 200
  /\ tresp[1].body = tiles[req[1].key]
  /\ tresp[1].body # CachedBytes(req[1].key)


\* --------------------------------------------- two overlapping sync runs
\* A second invocation of the handler runs while the first one does.  It is
\* called without since/until; its retry loop is reduced to the outcome of
\* the page request (the page, or the error that ends the run).
firstVars == <<pc, paramVars, loopVars, retryVars, records, resp,
               stateWrites, histVars>>

\* history: the first handler is in a run, or has started one since the
\* second was called
Met(l) == [l EXCEPT !.overlap = @ \/ Running \/ runs > l.runs0]

\* catch (error) in the second invocation
SecondFails(l) == [l EXCEPT !.pc = "done", !.success = FALSE]

SecondStart(m, rpcOk) ==
  /\ second.pc = "idle"
  /\ second' =
       LET l == [NoSecond EXCEPT !.mode = m, !.runs0 = runs,
                                 !.overlap = Running]
       IN  IF m = "incremental"
           THEN IF rpcOk
                THEN [l EXCEPT !.pc = "preflight",
                               !.watermark = CurrentDobWatermark(store),
                               !.newestSeen = CurrentDobWatermark(store)]
                ELSE SecondFails(l)
           ELSE [l EXCEPT !.pc = "fetch"]
  /\ m = "historical" => rpcOk
  /\ UNCHANGED <<envVars, store, syncState, firstVars>>
  /\ UNCHANGED <<pageVars, tileVars>>

SecondPreflight(outcome) ==
  /\ second.pc = "preflight"
  /\ second' =
       Met(CASE outcome = "ok" ->
                  IF Matching(upstream, second.watermark, None) = {}
                  THEN [second EXCEPT !.pc = "done", !.success = TRUE]
                  ELSE [second EXCEPT !.pc = "fetch"]
             [] outcome = "notok" -> [second EXCEPT !.pc = "fetch"]
             [] outcome = "throw" -> SecondFails(second))
  /\ UNCHANGED <<envVars, store, syncState, firstVars>>
  /\ UNCHANGED <<pageVars, tileVars>>

SecondFetch(ok) ==
  /\ second.pc = "fetch"
  /\ second' =
       Met(IF ok
           THEN LET rows == PageQuery(upstream, second.newestSeen, None,
                                      second.page)
                IN  [second EXCEPT
                       !.records = rows,
                       !.pc = IF rows = <<>> THEN "finish" ELSE "apply"]
           ELSE SecondFails(second))
  /\ UNCHANGED <<envVars, store, syncState, firstVars>>
  /\ UNCHANGED <<pageVars, tileVars>>

SecondApply(ok) ==
  /\ second.pc = "apply"
  /\ IF ok
     THEN /\ store' = UpsertDobPermits(store, second.records)
          /\ second' =
               LET maxU == MaxUpdated(second.records)
                   l == IF maxU > second.newestSeen
                        THEN [second EXCEPT !.newestSeen = maxU,
                                            !.maxUpdatedAt = maxU]
                        ELSE second
               IN  Met(IF Len(second.records) < PAGE_SIZE
                       THEN [l EXCEPT !.pc = "finish"]
                       ELSE [l EXCEPT !.pc = "fetch", !.page = @ + 1])
     ELSE /\ store' = store
          /\ second' = Met(SecondFails(second))
  /\ UNCHANGED <<envVars, syncState, firstVars>>
  /\ UNCHANGED <<pageVars, tileVars>>

SecondFinish(writeOk) ==
  /\ second.pc = "finish"
  /\ IF ShouldPersist(None, None, second.maxUpdatedAt, second.mode)
     THEN IF writeOk
          THEN LET v == IF second.maxUpdatedAt # None
                        THEN second.maxUpdatedAt ELSE clock
               IN  /\ syncState' = v
                   /\ second' = Met([second EXCEPT !.pc = "done",
                                                   !.success = TRUE,
                                                   !.wrote = v])
          ELSE /\ syncState' = syncState
               /\ second' = Met(SecondFails(second))
     ELSE /\ writeOk
          /\ syncState' = syncState
          /\ second' = Met([second EXCEPT !.pc = "done", !.success = TRUE])
  /\ UNCHANGED <<envVars, store, firstVars>>
  /\ UNCHANGED <<pageVars, tileVars>>

NextOverlap ==
  \/ \E i \in Ids : UpstreamPut(i)
  \/ Tick
  \/ \E m \in Modes, ok \in BOOLEAN : StartLiveRun(m, None, None, ok)
  \/ \E o \in {"ok", "notok"} : Preflight(o)
  \/ \E o \in {"ok", "client"} : FetchAttempt(o)
  \/ UpsertFails
  \/ ApplyPage
  \/ \E ok \in BOOLEAN : Finish(ok)
  \/ Return
  \/ \E m \in Modes, ok \in BOOLEAN : SecondStart(m, ok)
  \/ \E o \in {"ok", "notok", "throw"} : SecondPreflight(o)
  \/ \E ok \in BOOLEAN : SecondFetch(ok)
  \/ \E ok \in BOOLEAN : SecondApply(ok)
  \/ \E ok \in BOOLEAN : SecondFinish(ok)

SpecOverlap == Init /\ [][NextOverlap]_vars

\* C37: under any interleaving of two overlapping sync runs an older version
\* of a record never replaces a newer one: the updated_at stored for a permit
\* id never decreases.
C37_StoredVersionNeverOlder ==
  [][\A i \in Ids : store'[i] >= store[i]]_vars

\* the watermark the first run persisted (None when it wrote nothing)
FirstWrote ==
  IF stateWrites = 0 THEN None
  ELSE IF maxUpdatedAt # None THEN maxUpdatedAt ELSE clock

\* C38: under any interleaving of two overlapping non-override sync runs
\* that both succeed, the watermark persisted in dataset_sync_state after
\* both have finished is never lower than the larger of the two values the
\* runs persisted.
C38_WatermarkKeepsLargerValue ==
  (/\ pc = "done" /\ resp = OkResp /\ NoRange
   /\ second.pc = "done" /\ second.success
   /\ second.overlap
   /\ FirstWrote # None /\ second.wrote # None)
  => syncState >= Max({FirstWrote, second.wrote})


\* ------------------------------------------------ writers of the tables

\* No step removes a row of dob_permits, and a call of upsert_dob_permits
\* that succeeds leaves one row for each id it found or carried.
PermitRowsKept ==
  [][/\ DOMAIN dob_permits \subseteq DOMAIN dob_permits'
     /\ Upserted => DOMAIN dob_permits'
                      = DOMAIN dob_permits \cup PageIds(lastCall'.rows)]_vars

\* A step of the tiles handler, of a cache upsert or of clean_mvt_cache
\* leaves the four tables as they are.
TilesReadOnly ==
  [][(tpc' # tpc \/ pending' # pending \/ mvt_cache' # mvt_cache)
       => tableVars' = tableVars]_vars

\* C36: over any sequence of sync runs and tile requests, permit rows are
\* never deleted and the permit table holds at most one row per id; tile
\* requests and tile generation never modify buildings, permit details,
\* entities or permits.
C36_PermitsOnlyWrittenByUpsert == PermitRowsKept /\ TilesReadOnly

\* two pages were applied, the second for an id that was stored already,
\* and a tile was generated and answered in between or after
C36_Witness ==
  /\ ops = 2 /\ lastCall.op = "upsert" /\ lastCall.updated = 1
  /\ DOMAIN dob_permits = {lastCall.rows[1].id}
  /\ tpc[1] = "done" /\ rpcCalls[1] = 1 /\ tresp[1].status = 200

====
